---- MODULE Spec2Model ----
(***************************************************************************)
(* Model of the dessin drawing library: the PDF exporter (dessin-pdf),     *)
(* the Circle shape operations (dessin/contrib/circle.rs), the dessin!     *)
(* macro expansion (dessin-macros) and the export traversal that drives    *)
(* the exporter callbacks.                                                 *)
(*                                                                         *)
(* Numbers.  f32 lengths of the geometry are fixed-point integers counted  *)
(* in 1/Unit of a document unit; the linear part of a transform is a pure  *)
(* integer matrix (quarter turns, integer scales).  Stroke widths and dash *)
(* lengths are counted in tenths of a millimetre.                          *)
(***************************************************************************)
EXTENDS Integers, Sequences, FiniteSets, TLC

VARIABLES
    layer,       \* PdfLayerReference: graphics state + content stream
    doc,         \* PdfDocumentReference: page size + embedded fonts
    used_font,   \* PDFExporter.used_font: the keys of the PDFFontHolder
    calls,       \* log of the exporter callbacks issued so far
    source,      \* the dessin! source the exported tree was built from
    tree,        \* the Shape tree being exported
    options,     \* PDFOptions handed to the entry point
    backend,     \* "pdf" (PDFExporter) or "mock" (a recording Exporter)
    entry,       \* export entry point that was called
    stack,       \* pending work of the depth-first walk
    pc,          \* position of the export: start, walking, done, failed
    result,      \* value returned by the entry point
    circle,      \* a Circle under construction (shape operation contract)
    applied,     \* the transforms applied to circle so far, in order
    previous,    \* callback log of the previous export of the same tree
    other,       \* a concurrent export of the same tree, while suspended
    drawing,     \* a Drawing (src/drawing.rs) being filled by add calls
    added,       \* the shapes handed to Drawing::add so far, in call order
    scope        \* a let-bound shape, the instances alive and who owns them

vars == <<layer, doc, used_font, calls, source, tree, options, backend,
          entry, stack, pc, result, circle, applied, previous, other,
          drawing, added, scope>>

----------------------------------------------------------------------------
(* Bounds *)

MaxCalls == 3      \* callbacks issued in a free call sequence
MaxOps == 3        \* shape operations applied to one Circle
MaxShapes == 3     \* shapes added to one Drawing
MaxStatements == 3 \* statements that reuse one let-bound shape

----------------------------------------------------------------------------
(* Option<T> is a sequence of length at most one *)

None == <<>>
Some(x) == <<x>>
IsSome(o) == Len(o) = 1
Unwrap(o) == o[1]

----------------------------------------------------------------------------
(* Geometry: nalgebra Transform2<f32> as the affine matrix                *)
(*   | a b e |                                                            *)
(*   | c d f |   stored <<a, b, c, d, e, f>>                              *)

Unit == 2

Identity == <<1, 0, 0, 1, 0, 0>>

Translation2(x, y) == <<1, 0, 0, 1, x * Unit, y * Unit>>

Scale2(x, y) == <<x, 0, 0, y, 0, 0>>

\* Rotation2::new(quarter turn), counter-clockwise
Rotation2Quarter == <<0, -1, 1, 0, 0, 0>>

\* Transform2 * Transform2
Mul(m, n) ==
    << m[1] * n[1] + m[2] * n[3],
       m[1] * n[2] + m[2] * n[4],
       m[3] * n[1] + m[4] * n[3],
       m[3] * n[2] + m[4] * n[4],
       m[1] * n[5] + m[2] * n[6] + m[5],
       m[3] * n[5] + m[4] * n[6] + m[6] >>

\* Transform2 * Point2
Apply(m, p) == << m[1] * p[1] + m[2] * p[2] + m[5],
                  m[3] * p[1] + m[4] * p[2] + m[6] >>

\* Transform2 * Vector2 (no translation)
ApplyVec(m, v) == << m[1] * v[1] + m[2] * v[2], m[3] * v[1] + m[4] * v[2] >>

Point2(x, y) == <<x * Unit, y * Unit>>

----------------------------------------------------------------------------
(* Colours, fills and strokes *)

rgb(r, g, b) == <<r, g, b>>

BLACK == rgb(0, 0, 0)
RED == rgb(255, 0, 0)
GREY == rgb(150, 150, 150)

\* Color::as_rgb_f32: u8 channels to the range 0..1, here in thousandths
as_rgb_f32(c) == << (c[1] * 1000) \div 255, (c[2] * 1000) \div 255,
                    (c[3] * 1000) \div 255 >>

\* printpdf::Color::Rgb
PdfRgb(t) == [r |-> t[1], g |-> t[2], b |-> t[3]]

Full(color, width) == [kind |-> "Full", color |-> color, width |-> width,
                       on |-> 0, off |-> 0]
Dashed(color, width, on, off) ==
    [kind |-> "Dashed", color |-> color, width |-> width, on |-> on, off |-> off]

StylePosition(fill, stroke) == [fill |-> fill, stroke |-> stroke]

\* printpdf::Mm(w).into_pt().0 with w in tenths of a millimetre; the result
\* is in thousandths of a point (1 mm = 2.834646 pt)
Mm_into_pt(w) == (w * 2835) \div 10

\* `x as i64` for a non-negative f32 kept in tenths: truncation
as_i64(tenths) == tenths \div 10

LineDashPattern(d1, g1) == [offset |-> 0, dash_1 |-> d1, gap_1 |-> g1]

----------------------------------------------------------------------------
(* The PDF layer: a graphics state and the operations written so far *)

GraphicsState(fill, outline, thickness, dash) ==
    [fill_color |-> fill, outline_color |-> outline,
     outline_thickness |-> thickness, dash_pattern |-> dash]

\* what end_style leaves behind: black, 0, no dash, black
DefaultGS == GraphicsState(PdfRgb(<<0, 0, 0>>), PdfRgb(<<0, 0, 0>>), 0,
                           LineDashPattern(None, None))

set_fill_color(l, c) == [l EXCEPT !.gs.fill_color = c]
set_outline_color(l, c) == [l EXCEPT !.gs.outline_color = c]
set_outline_thickness(l, t) == [l EXCEPT !.gs.outline_thickness = t]
set_line_dash_pattern(l, d) == [l EXCEPT !.gs.dash_pattern = d]

\* every drawing operation is recorded with the graphics state it is drawn in
LayerOp(l, name, data) == [op |-> name, gs |-> l.gs, data |-> data]
add_op(l, name, data) == [l EXCEPT !.ops = Append(@, LayerOp(l, name, data))]

add_line(l, line) == add_op(l, "add_line", <<line>>)

----------------------------------------------------------------------------
(* Results *)

Ok == [ok |-> TRUE, err |-> "none"]
Err(e) == [ok |-> FALSE, err |-> e]

\* the exporter as the callbacks see it
Exporter(l, d, uf) == [layer |-> l, doc |-> d, used_font |-> uf]

Ret(self, res) == [self |-> self, res |-> res]

----------------------------------------------------------------------------
(* Fonts *)

FontRef_default == "default"
Fonts == {"default", "serif", "broken"}
FontWeights == {"Regular", "Bold"}

\* font files printpdf cannot parse
BadFonts == {"broken"}

\* dessin::font::get(font).get(font_weight): the bytes of one font file
font_get(font, font_weight) == <<font, font_weight>>

\* PdfDocumentReference::add_external_font: parses the bytes and embeds the
\* font; ref is the IndirectFontRef of the new font
add_external_font(d, bytes) ==
    IF bytes[1] \in BadFonts
      THEN [doc |-> d, res |-> Err("PrintPDF"), ref |-> 0]
      ELSE [doc |-> [d EXCEPT !.fonts = Append(@, bytes)], res |-> Ok,
            ref |-> Len(d.fonts) + 1]

\* HashMap::insert
insert(m, k, v) == [x \in DOMAIN m \cup {k} |-> IF x = k THEN v ELSE m[x]]

contains_key(m, k) == k \in DOMAIN m

EmptyMap == [x \in {} |-> 0]

----------------------------------------------------------------------------
(* impl Exporter for PDFExporter *)

\* a backend that declares native ellipses
CAN_EXPORT_ELLIPSE_declared == TRUE

CAN_EXPORT_ELLIPSE == FALSE

\* start_style that paints black when the style has no fill
start_style_default_fill(self, sp) ==
    LET l1 == set_fill_color(self.layer,
                             PdfRgb(as_rgb_f32(IF IsSome(sp.fill)
                                                 THEN Unwrap(sp.fill)
                                                 ELSE BLACK)))
        l2 == IF IsSome(sp.stroke)
                THEN LET stroke == Unwrap(sp.stroke)
                         la == IF stroke.kind = "Dashed"
                                 THEN set_line_dash_pattern(l1,
                                        LineDashPattern(Some(as_i64(stroke.on)),
                                                        Some(as_i64(stroke.off))))
                                 ELSE l1
                         lb == set_outline_color(la,
                                   PdfRgb(as_rgb_f32(stroke.color)))
                     IN  set_outline_thickness(lb, Mm_into_pt(stroke.width))
                ELSE l1
    IN  Ret([self EXCEPT !.layer = l2], Ok)

start_style(self, sp) ==
    LET l1 == IF IsSome(sp.fill)
                THEN set_fill_color(self.layer,
                                    PdfRgb(as_rgb_f32(Unwrap(sp.fill))))
                ELSE self.layer
        l2 == IF IsSome(sp.stroke)
                THEN LET stroke == Unwrap(sp.stroke)
                         la == IF stroke.kind = "Dashed"
                                 THEN set_line_dash_pattern(l1,
                                        LineDashPattern(Some(as_i64(stroke.on)),
                                                        Some(as_i64(stroke.off))))
                                 ELSE l1
                         lb == set_outline_color(la,
                                   PdfRgb(as_rgb_f32(stroke.color)))
                     IN  set_outline_thickness(lb, Mm_into_pt(stroke.width))
                ELSE l1
    IN  Ret([self EXCEPT !.layer = l2], Ok)

\* end_style that leaves the fill colour as it is
end_style_keeps_fill(self) ==
    LET l1 == set_outline_color(self.layer, PdfRgb(<<0, 0, 0>>))
        l2 == set_outline_thickness(l1, 0)
        l3 == set_line_dash_pattern(l2, LineDashPattern(None, None))
    IN  Ret([self EXCEPT !.layer = l3], Ok)

\* end_style that leaves the dash pattern as it is
end_style_keeps_dash(self) ==
    LET l1 == set_outline_color(self.layer, PdfRgb(<<0, 0, 0>>))
        l2 == set_outline_thickness(l1, 0)
        l4 == set_fill_color(l2, PdfRgb(<<0, 0, 0>>))
    IN  Ret([self EXCEPT !.layer = l4], Ok)

end_style(self) ==
    LET l1 == set_outline_color(self.layer, PdfRgb(<<0, 0, 0>>))
        l2 == set_outline_thickness(l1, 0)
        l3 == set_line_dash_pattern(l2, LineDashPattern(None, None))
        l4 == set_fill_color(l3, PdfRgb(<<0, 0, 0>>))
    IN  Ret([self EXCEPT !.layer = l4], Ok)

export_image(self, ip) ==
    Ret([self EXCEPT !.layer = add_op(@, "add_image", <<ip.bottom_left>>)], Ok)

\* KeypointPosition
KPoint(p) == [kp |-> "Point", p |-> p]
KBezier(start, sc, ec, end) ==
    [kp |-> "Bezier", start |-> start, start_control |-> sc,
     end_control |-> ec, end |-> end]

CurvePosition(keypoints, closed) == [keypoints |-> keypoints, closed |-> closed]

\* the closure with next_control taken from the keypoint itself rather than
\* from the one after it
curve_points_of_own_keypoint(curve, i) ==
    LET key_point == curve.keypoints[i]
        next_control == /\ key_point.kp = "Bezier"
                        /\ ~IsSome(key_point.start)
    IN  IF key_point.kp = "Point"
          THEN << <<key_point.p, next_control>> >>
          ELSE (IF IsSome(key_point.start)
                  THEN << <<Unwrap(key_point.start), TRUE>> >>
                  ELSE <<>>)
               \o << <<key_point.start_control, TRUE>>,
                     <<key_point.end_control, FALSE>>,
                     <<key_point.end, next_control>> >>

\* the closure of the flat_map in export_curve, for the keypoint at index i
\* (1-based): the points of the keypoint with their next-is-control flag
curve_points_of(curve, i) ==
    LET key_point == curve.keypoints[i]
        next_control == /\ i + 1 <= Len(curve.keypoints)
                        /\ curve.keypoints[i + 1].kp = "Bezier"
                        /\ ~IsSome(curve.keypoints[i + 1].start)
    IN  IF key_point.kp = "Point"
          THEN << <<key_point.p, next_control>> >>
          ELSE (IF IsSome(key_point.start)
                  THEN << <<Unwrap(key_point.start), TRUE>> >>
                  ELSE <<>>)
               \o << <<key_point.start_control, TRUE>>,
                     <<key_point.end_control, FALSE>>,
                     <<key_point.end, next_control>> >>

RECURSIVE flat_map_points(_, _)
flat_map_points(curve, i) ==
    IF i > Len(curve.keypoints) THEN <<>>
    ELSE curve_points_of(curve, i) \o flat_map_points(curve, i + 1)

\* export_curve that never closes the line
export_curve_open(self, curve) ==
    LET points1 == flat_map_points(curve, 1)
        line == [points |-> points1, is_closed |-> FALSE]
    IN  Ret([self EXCEPT !.layer = add_line(@, line)], Ok)

export_curve(self, curve) ==
    LET points1 == flat_map_points(curve, 1)
        line == [points |-> points1, is_closed |-> curve.closed]
    IN  Ret([self EXCEPT !.layer = add_line(@, line)], Ok)

TextPosition(text, font_weight, font_size, reference_start, direction, font) ==
    [text |-> text, font_weight |-> font_weight, font_size |-> font_size,
     reference_start |-> reference_start, direction |-> direction,
     font |-> font]

\* the text section written by export_text once the font is embedded
write_text_section(l, tp, fontref) ==
    LET l1 == add_op(l, "begin_text_section", <<>>)
        l2 == add_op(l1, "set_font", <<fontref, tp.font_size>>)
        l3 == add_op(l2, "set_text_rendering_mode", <<"Fill">>)
        l4 == add_op(l3, "set_text_matrix",
                     <<tp.reference_start, tp.direction>>)
        l5 == add_op(l4, "write_text", <<tp.text, fontref>>)
    IN  add_op(l5, "end_text_section", <<>>)

\* export_text that begins the text section before it embeds the font
export_text_section_first(self, tp) ==
    LET font == IF IsSome(tp.font) THEN Unwrap(tp.font) ELSE FontRef_default
        font_weight == tp.font_weight
        key == <<font, font_weight>>
        bytes == font_get(font, font_weight)
        e1 == add_external_font(self.doc, bytes)
        e2 == add_external_font(e1.doc, bytes)
        present == contains_key(self.used_font, key)
        failed1 == present /\ ~e1.res.ok
        doc1 == IF present THEN e2.doc ELSE self.doc
        uf1 == IF present THEN insert(self.used_font, key, e1.ref)
               ELSE self.used_font
        begun == add_op(self.layer, "begin_text_section", <<>>)
        e3 == add_external_font(doc1, bytes)
    IN  IF failed1
          THEN Ret(self, e1.res)
          ELSE IF ~e3.res.ok
            THEN Ret([layer |-> begun, doc |-> doc1, used_font |-> uf1],
                     e3.res)
            ELSE Ret([layer |-> write_text_section(self.layer, tp, e3.ref),
                      doc |-> e3.doc, used_font |-> uf1], Ok)

export_text(self, tp) ==
    LET font == IF IsSome(tp.font) THEN Unwrap(tp.font) ELSE FontRef_default
        font_weight == tp.font_weight
        key == <<font, font_weight>>
        bytes == font_get(font, font_weight)
        \* if !contains_key { } else { insert(add_external_font?); add_external_font }
        e1 == add_external_font(self.doc, bytes)
        e2 == add_external_font(e1.doc, bytes)
        present == contains_key(self.used_font, key)
        failed1 == present /\ ~e1.res.ok
        doc1 == IF present THEN e2.doc ELSE self.doc
        uf1 == IF present THEN insert(self.used_font, key, e1.ref)
               ELSE self.used_font
        \* let font: IndirectFontRef = ... add_external_font(..)?
        e3 == add_external_font(doc1, bytes)
    IN  IF failed1
          THEN Ret(self, e1.res)
          ELSE IF ~e3.res.ok
            THEN Ret([self EXCEPT !.doc = doc1, !.used_font = uf1], e3.res)
            ELSE Ret([layer |-> write_text_section(self.layer, tp, e3.ref),
                      doc |-> e3.doc, used_font |-> uf1], Ok)

----------------------------------------------------------------------------
(* The callback log *)

\* path is the place in the tree of the shape the callback is issued for, tf
\* the absolute transform its geometry was resolved with, gs the graphics
\* state of the layer and used_font the font table of the exporter when the
\* callback is entered
Call(op, path, tf, arg, res) ==
    [op |-> op, path |-> path, tf |-> tf, arg |-> arg, res |-> res,
     gs |-> layer.gs, used_font |-> used_font]

DrawOps == {"export_curve", "export_text", "export_image", "export_ellipse"}

\* state after a callback of the PDF exporter returned r
Returned(r) ==
    /\ layer' = r.self.layer
    /\ doc' = r.self.doc
    /\ used_font' = r.self.used_font

Self == Exporter(layer, doc, used_font)

----------------------------------------------------------------------------
(* Inputs of the exporter callbacks *)

Fills == {None, Some(RED)}
Strokes == {None, Some(Full(GREY, 2)), Some(Dashed(BLACK, 1, 30, 15))}
Styles == {StylePosition(f, s) : f \in Fills, s \in Strokes}

P00 == Point2(0, 0)
P10 == Point2(1, 0)
P11 == Point2(1, 1)
P01 == Point2(0, 1)

CurvePositions ==
    { CurvePosition(<<KPoint(P00), KPoint(P10)>>, FALSE),
      CurvePosition(<<KPoint(P00)>>, TRUE),
      CurvePosition(<<KBezier(None, P10, P11, P01)>>, FALSE),
      CurvePosition(<<KPoint(P00), KBezier(None, P10, P11, P01), KPoint(P00)>>,
                    TRUE),
      CurvePosition(<<KBezier(Some(P00), P10, P11, P01),
                      KBezier(None, P01, P10, P00)>>, TRUE) }

TextPositions ==
    { TextPosition("t", w, 7, P00, <<1, 0>>, f) :
        w \in FontWeights, f \in {None, Some("serif"), Some("broken")} }

ImagePositions == { [bottom_left |-> P00, width |-> 2, height |-> 2] }

\* the graphics state of a layer handed in by the caller: a fresh page (PDF
\* initial state: black, line width 1 pt, solid) or one already drawn on
InitialGS ==
    { GraphicsState(PdfRgb(<<0, 0, 0>>), PdfRgb(<<0, 0, 0>>), 1000,
                    LineDashPattern(None, None)),
      GraphicsState(PdfRgb(<<1000, 0, 0>>), PdfRgb(<<0, 0, 1000>>), 567,
                    LineDashPattern(Some(3), Some(1))) }

\* PDFOptions.used_font as the caller pre-populated it
FontTables ==
    { EmptyMap,
      insert(EmptyMap, <<"serif", "Regular">>, 1),
      insert(insert(EmptyMap, <<"default", "Bold">>, 1),
             <<"broken", "Regular">>, 2) }

NoPath == <<>>

----------------------------------------------------------------------------
(* Specification SpecCalls: the callbacks of one PDFExporter called in any   *)
(* order with any arguments                                                *)

InitCalls ==
    /\ layer \in { [gs |-> g, ops |-> <<>>] : g \in InitialGS }
    /\ doc = [size |-> None, fonts |-> <<>>]
    /\ used_font \in FontTables
    /\ options = [size |-> None, used_font |-> used_font]
    /\ calls = <<>>
    /\ source = None
    /\ tree = None
    /\ backend = "pdf"
    /\ entry = [name |-> "PDFExporter::new", parent_transform |-> Identity]
    /\ stack = <<>>
    /\ pc = "calls"
    /\ result = None
    /\ circle = None
    /\ applied = <<>>
    /\ previous = None
    /\ drawing = None
    /\ added = <<>>
    /\ scope = None
    /\ other = None

CallFrame == UNCHANGED <<source, tree, options, backend, entry, stack, pc,
                         result, circle, applied, previous, other,
                         drawing, added, scope>>

CallStartStyle ==
    /\ pc = "calls" /\ Len(calls) < MaxCalls
    /\ \E sp \in Styles :
         LET r == start_style(Self, sp)
         IN  /\ Returned(r)
             /\ calls' = Append(calls, Call("start_style", NoPath, None,
                                            <<sp>>, r.res))
    /\ CallFrame

CallEndStyle ==
    /\ pc = "calls" /\ Len(calls) < MaxCalls
    /\ LET r == end_style(Self)
       IN  /\ Returned(r)
           /\ calls' = Append(calls, Call("end_style", NoPath, None, <<>>,
                                          r.res))
    /\ CallFrame

CallExportCurve ==
    /\ pc = "calls" /\ Len(calls) < MaxCalls
    /\ \E cp \in CurvePositions :
         LET r == export_curve(Self, cp)
         IN  /\ Returned(r)
             /\ calls' = Append(calls, Call("export_curve", NoPath, None,
                                            <<cp>>, r.res))
    /\ CallFrame

CallExportText ==
    /\ pc = "calls" /\ Len(calls) < MaxCalls
    /\ \E tp \in TextPositions :
         LET r == export_text(Self, tp)
         IN  /\ Returned(r)
             /\ calls' = Append(calls, Call("export_text", NoPath, None,
                                            <<tp>>, r.res))
    /\ CallFrame

CallExportImage ==
    /\ pc = "calls" /\ Len(calls) < MaxCalls
    /\ \E ip \in ImagePositions :
         LET r == export_image(Self, ip)
         IN  /\ Returned(r)
             /\ calls' = Append(calls, Call("export_image", NoPath, None,
                                            <<ip>>, r.res))
    /\ CallFrame

NextCalls ==
    \/ CallStartStyle
    \/ CallEndStyle
    \/ CallExportCurve
    \/ CallExportText
    \/ CallExportImage

SpecCalls == InitCalls /\ [][NextCalls]_vars

----------------------------------------------------------------------------
(* Shapes *)

\* contrib::Circle, before its conversion into a Shape
Circle_default == [kind |-> "Circle", local_transform |-> Identity]

Ellipse(lt) == [kind |-> "Ellipse", local_transform |-> lt]

Curve_default == [kind |-> "Curve", local_transform |-> Identity,
                  keypoints |-> <<>>, closed |-> FALSE]

Text_default == [kind |-> "Text", local_transform |-> Identity, text |-> "",
                 font |-> None, font_weight |-> "Regular", font_size |-> 1]

Image_default == [kind |-> "Image", local_transform |-> Identity]

Group(lt, shapes) == [kind |-> "Group", local_transform |-> lt,
                      shapes |-> shapes, metadata |-> <<>>]

\* Shape::default(): the empty group
Shape_default == Group(Identity, <<>>)

\* Style::new(shape)
Style_new(shape) == [kind |-> "Style", shape |-> shape, fill |-> None,
                     stroke |-> None]

\* impl From<Circle> for Shape
Circle_into_Shape(c) == Ellipse(c.local_transform)

\* Shape::from(value): a Circle becomes an Ellipse, also under a Style
RECURSIVE Shape_from(_)
Shape_from(v) ==
    IF v.kind = "Circle" THEN Circle_into_Shape(v)
    ELSE IF v.kind = "Style" THEN [v EXCEPT !.shape = Shape_from(v.shape)]
    ELSE v

----------------------------------------------------------------------------
(* Shape operation contract *)

\* product with the argument on the left, the order Circle::transform avoids
Circle_transform_left(c, transform_matrix) ==
    [c EXCEPT !.local_transform = Mul(transform_matrix, @)]

\* impl ShapeOp for Circle: self.local_transform *= transform_matrix
Circle_transform(c, transform_matrix) ==
    [c EXCEPT !.local_transform = Mul(@, transform_matrix)]

\* ShapeOp::transform of the other shapes; a Style delegates to its shape
RECURSIVE ShapeOp_transform(_, _)
ShapeOp_transform(v, m) ==
    IF v.kind = "Circle" THEN Circle_transform(v, m)
    ELSE IF v.kind = "Style"
      THEN [v EXCEPT !.shape = ShapeOp_transform(v.shape, m)]
    ELSE [v EXCEPT !.local_transform = Mul(@, m)]

\* ShapeOp::translate / rotate / scale / resize: convert, then transform
ShapeOp_translate(v, t) == ShapeOp_transform(v, Translation2(t[1], t[2]))
ShapeOp_rotate(v, quarter_turns) ==
    IF quarter_turns = 0 THEN ShapeOp_transform(v, Identity)
    ELSE IF quarter_turns = 1 THEN ShapeOp_transform(v, Rotation2Quarter)
    ELSE IF quarter_turns = 2
      THEN ShapeOp_transform(v, Mul(Rotation2Quarter, Rotation2Quarter))
    ELSE ShapeOp_transform(v, Mul(Rotation2Quarter,
                                  Mul(Rotation2Quarter, Rotation2Quarter)))
ShapeOp_resize(v, sc) == ShapeOp_transform(v, Scale2(sc[1], sc[2]))

\* a radius that sets the scale of the transform and keeps its translation
Circle_radius_setting(c, radius) ==
    [c EXCEPT !.local_transform = <<radius, 0, 0, radius, @[5], @[6]>>]

\* Circle::radius: self.resize(Scale2::new(radius, radius))
Circle_radius(c, radius) == ShapeOp_resize(c, <<radius, radius>>)

\* Circle::with_radius
Circle_with_radius(c, radius) == Circle_radius(c, radius)

\* a getter that moves the transform out and leaves the identity behind
Circle_local_transform_taking(c) ==
    [self |-> [c EXCEPT !.local_transform = Identity],
     value |-> c.local_transform]

\* ShapeOp::local_transform(&self) -> &Transform2<f32>: the receiver after
\* the call, and the value read
Circle_local_transform(c) == [self |-> c, value |-> c.local_transform]

----------------------------------------------------------------------------
(* dessin! : the expansion of the macro, evaluated *)

Action(fn_name, arg) == [fn_name |-> fn_name, arg |-> arg]

\* __current_shape__.fn_name(arg)
RECURSIVE call_method(_, _)
call_method(v, a) ==
    CASE a.fn_name = "transform" -> ShapeOp_transform(v, a.arg)
      [] a.fn_name = "translate" -> ShapeOp_translate(v, a.arg)
      [] a.fn_name = "rotate" -> ShapeOp_rotate(v, a.arg)
      [] a.fn_name = "scale" -> ShapeOp_resize(v, a.arg)
      [] a.fn_name = "radius" ->
            IF v.kind = "Style"
              THEN [v EXCEPT !.shape = call_method(v.shape, a)]
              ELSE Circle_radius(v, a.arg)
      [] a.fn_name = "fill" -> [v EXCEPT !.fill = Some(a.arg)]
      [] a.fn_name = "stroke" -> [v EXCEPT !.stroke = Some(a.arg)]
      [] OTHER ->
            IF v.kind = "Style"
              THEN [v EXCEPT !.shape = call_method(v.shape, a)]
              ELSE CASE a.fn_name = "then" ->
                          [v EXCEPT !.keypoints = Append(@, a.arg)]
                     [] a.fn_name = "closed" -> [v EXCEPT !.closed = TRUE]
                     [] a.fn_name = "text" -> [v EXCEPT !.text = a.arg]
                     [] a.fn_name = "font" -> [v EXCEPT !.font = Some(a.arg)]
                     [] a.fn_name = "font_weight" ->
                          [v EXCEPT !.font_weight = a.arg]
                     [] a.fn_name = "font_size" -> [v EXCEPT !.font_size = a.arg]

\* impl From<Actions> for TokenStream: the calls, in source order
RECURSIVE run_actions(_, _)
run_actions(v, actions) ==
    IF actions = <<>> THEN v
    ELSE run_actions(call_method(v, Head(actions)), Tail(actions))

ShapeActions(is_style, actions) == [is_style |-> is_style, actions |-> actions]

item_default(item_name) ==
    CASE item_name = "Circle" -> Circle_default
      [] item_name = "Curve" -> Curve_default
      [] item_name = "Text" -> Text_default
      [] item_name = "Image" -> Image_default
      [] item_name = "Shape" -> Shape_default

\* the three shared tails of DessinItem, DessinVar and DessinCloned
with_actions(base, shape_actions) ==
    run_actions(IF shape_actions.is_style THEN Style_new(base) ELSE base,
                shape_actions.actions)

\* Item: ( actions )  and  Item: #( actions )
DessinItem(item_name, shape_actions) ==
    [ty |-> "Item", item_name |-> item_name, shape_actions |-> shape_actions]

\* var(v): ( actions )
DessinVar(var, shape_actions) ==
    [ty |-> "Var", var |-> var, shape_actions |-> shape_actions]

\* cloned(v): ( actions )
DessinCloned(var, shape_actions) ==
    [ty |-> "Cloned", var |-> var, shape_actions |-> shape_actions]

\* [ child, child, ... ]
DessinGroup(children) == [ty |-> "Group", children |-> children]

\* for variable in it { body }; body maps a value of it to a dessin
DessinFor(it, body) == [ty |-> "For", it |-> it, body |-> body]

\* if condition { if_body } else { else_body }
DessinIfElse(condition, if_body, else_body) ==
    [ty |-> "IfElse", condition |-> condition, if_body |-> if_body,
     else_body |-> else_body]

DessinEmpty == [ty |-> "Empty"]

\* dessin_type -> ( erased_type_shape_actions )
Dessin(dessin_type, erased_type_shape_actions) ==
    [ty |-> "Dessin", dessin_type |-> dessin_type,
     erased_type_shape_actions |-> erased_type_shape_actions]

\* children of a for loop, pushed in the reverse of the iteration order
RECURSIVE for_shapes_reversed(_)
for_shapes_reversed(shapes) ==
    IF shapes = <<>> THEN <<>>
    ELSE Append(for_shapes_reversed(Tail(shapes)), Head(shapes))

\* impl From<DessinFor>: one push per iteration, in iteration order
for_shapes(shapes) == shapes

\* children of a group literal with the first two exchanged
group_shapes_swapped(shapes) ==
    IF Len(shapes) < 2 THEN shapes
    ELSE <<shapes[2], shapes[1]>> \o SubSeq(shapes, 3, Len(shapes))

\* impl From<DessinGroup>: vec![ #(Shape::from(#children)),* ]
group_shapes(shapes) == shapes

\* impl From<DessinIfElse>: the tokens of the else branch, DessinType::Empty
\* when there is no else
else_tokens(else_body) ==
    IF IsSome(else_body) THEN Unwrap(else_body) ELSE DessinEmpty

\* an expansion that drops the else branch
if_else_without_else(condition, if_shape, else_shape) ==
    IF condition THEN if_shape ELSE Shape_default

\* impl From<DessinIfElse>:
\*   if #condition { Shape::from(#if_body) } else { Shape::from(#else_body) }
if_else(condition, if_shape, else_shape) ==
    IF condition THEN if_shape ELSE else_shape

\* the value of the expression a dessin expands to
RECURSIVE eval(_)
eval(d) ==
    CASE d.ty = "Empty" -> Shape_default
      [] d.ty = "Item" -> with_actions(item_default(d.item_name),
                                       d.shape_actions)
      [] d.ty = "Var" -> with_actions(d.var, d.shape_actions)
      [] d.ty = "Cloned" -> with_actions(d.var, d.shape_actions)
      [] d.ty = "Group" ->
            Group(Identity,
                  group_shapes([i \in 1..Len(d.children) |->
                                  Shape_from(eval(d.children[i]))]))
      [] d.ty = "For" ->
            Group(Identity,
                  for_shapes([i \in 1..Len(d.it) |->
                                Shape_from(eval(d.body[d.it[i]]))]))
      [] d.ty = "IfElse" ->
            if_else(d.condition, Shape_from(eval(d.if_body)),
                    Shape_from(eval(else_tokens(d.else_body))))
      [] d.ty = "Dessin" ->
            IF IsSome(d.erased_type_shape_actions)
              THEN with_actions(Shape_from(eval(d.dessin_type)),
                                Unwrap(d.erased_type_shape_actions))
              ELSE eval(d.dessin_type)

----------------------------------------------------------------------------
(* Position resolver *)

\* control-point offset of the four-arc circle approximation, in 1/Unit
Kappa == 1

\* Ellipse as a Curve: four Bezier segments around the unit circle, closed
as_curve(ellipse) ==
    [kind |-> "Curve", local_transform |-> ellipse.local_transform,
     keypoints |->
        << KBezier(Some(<<Unit, 0>>), <<Unit, Kappa>>, <<Kappa, Unit>>,
                   <<0, Unit>>),
           KBezier(None, <<-Kappa, Unit>>, <<-Unit, Kappa>>, <<-Unit, 0>>),
           KBezier(None, <<-Unit, -Kappa>>, <<-Kappa, -Unit>>, <<0, -Unit>>),
           KBezier(None, <<Kappa, -Unit>>, <<Unit, -Kappa>>, <<Unit, 0>>) >>,
     closed |-> TRUE]

keypoint_position(k, abs) ==
    IF k.kp = "Point" THEN KPoint(Apply(abs, k.p))
    ELSE KBezier(IF IsSome(k.start) THEN Some(Apply(abs, Unwrap(k.start)))
                 ELSE None,
                 Apply(abs, k.start_control), Apply(abs, k.end_control),
                 Apply(abs, k.end))

\* Curve::position(parent_transform)
curve_position(curve, parent_transform) ==
    LET abs == Mul(parent_transform, curve.local_transform)
    IN  CurvePosition([i \in 1..Len(curve.keypoints) |->
                          keypoint_position(curve.keypoints[i], abs)],
                      curve.closed)

\* Text::position(parent_transform)
text_position(text, parent_transform) ==
    LET abs == Mul(parent_transform, text.local_transform)
    IN  TextPosition(text.text, text.font_weight, text.font_size,
                     Apply(abs, <<0, 0>>), ApplyVec(abs, <<1, 0>>), text.font)

\* Image::position(parent_transform)
image_position(image, parent_transform) ==
    LET abs == Mul(parent_transform, image.local_transform)
    IN  [bottom_left |-> Apply(abs, <<-1, -1>>), width |-> 2, height |-> 2]

\* Ellipse::position(parent_transform), for a backend that draws ellipses
ellipse_position(ellipse, parent_transform) ==
    LET abs == Mul(parent_transform, ellipse.local_transform)
    IN  [center |-> Apply(abs, <<0, 0>>),
         semi_major_axis |-> ApplyVec(abs, <<Unit, 0>>),
         semi_minor_axis |-> ApplyVec(abs, <<0, Unit>>)]

\* the anchor and control points a shape resolves to under parent_transform
RECURSIVE resolved_points(_, _)
resolved_points(shape, parent_transform) ==
    CASE shape.kind = "Group" ->
            UNION { resolved_points(shape.shapes[i],
                                    Mul(parent_transform, shape.local_transform))
                    : i \in 1..Len(shape.shapes) }
      [] shape.kind = "Style" -> resolved_points(shape.shape, parent_transform)
      [] shape.kind = "Ellipse" ->
            LET abs == Mul(parent_transform, shape.local_transform)
            IN  { Apply(abs, p) : p \in { <<Unit, 0>>, <<0, Unit>>,
                                          <<-Unit, 0>>, <<0, -Unit>> } }
      [] shape.kind = "Curve" ->
            LET cp == curve_position(shape, parent_transform)
            IN  UNION { IF cp.keypoints[i].kp = "Point"
                          THEN {cp.keypoints[i].p}
                          ELSE {cp.keypoints[i].start_control,
                                cp.keypoints[i].end_control,
                                cp.keypoints[i].end}
                               \cup (IF IsSome(cp.keypoints[i].start)
                                       THEN {Unwrap(cp.keypoints[i].start)}
                                       ELSE {})
                        : i \in 1..Len(cp.keypoints) }
      [] shape.kind = "Text" ->
            {text_position(shape, parent_transform).reference_start}
      [] shape.kind = "Image" ->
            LET abs == Mul(parent_transform, shape.local_transform)
            IN  { Apply(abs, p) : p \in { <<-1, -1>>, <<1, -1>>, <<1, 1>>,
                                          <<-1, 1>> } }

MinOf(S) == CHOOSE x \in S : \A y \in S : x <= y
MaxOf(S) == CHOOSE x \in S : \A y \in S : x >= y

\* the box of Shape::local_bounding_box() itself: its corners
local_bounding_rect(shape) ==
    LET pts == resolved_points(shape, Identity)
        xs == { p[1] : p \in pts }
        ys == { p[2] : p \in pts }
    IN  IF pts = {} THEN [x0 |-> 0, y0 |-> 0, x1 |-> 0, y1 |-> 0]
        ELSE [x0 |-> MinOf(xs), y0 |-> MinOf(ys),
              x1 |-> MaxOf(xs), y1 |-> MaxOf(ys)]

\* Shape::local_bounding_box(): <<width, height>> of the box around the
\* shape resolved against the identity transform
local_bounding_box(shape) ==
    LET pts == resolved_points(shape, Identity)
        xs == { p[1] : p \in pts }
        ys == { p[2] : p \in pts }
    IN  IF pts = {} THEN <<0, 0>>
        ELSE << MaxOf(xs) - MinOf(xs), MaxOf(ys) - MinOf(ys) >>

----------------------------------------------------------------------------
(* Export entry points: impl ToPDF for Shape *)

\* a new page: PDF initial graphics state (black, 1 pt, solid), no content
NewLayer == [gs |-> GraphicsState(PdfRgb(<<0, 0, 0>>), PdfRgb(<<0, 0, 0>>),
                                  1000, LineDashPattern(None, None)),
             ops |-> <<>>]

\* PdfDocument::new("", Mm(w), Mm(h), "Layer 1")
PdfDocument_new(size) == [size |-> Some(size), fonts |-> <<>>]

PDFExporter_new(l, d, uf) == Exporter(l, d, uf)

\* nalgebra::convert(Translation2::new(width / 2., height / 2.)), the
\* lengths already in 1/Unit
half_translation(width, height) == <<1, 0, 0, 1, width \div 2, height \div 2>>

\* write_to_pdf_with_options that starts the walk at the page origin
write_to_pdf_with_options_uncentred(shape, l, opts, d) ==
    [exporter |-> PDFExporter_new(l, d, opts.used_font),
     parent_transform |-> Identity,
     self |-> shape]

\* write_to_pdf_with_options that centres by moving the shape itself
write_to_pdf_with_options_moving_self(shape, l, opts, d) ==
    LET size == IF IsSome(opts.size) THEN Unwrap(opts.size)
                ELSE local_bounding_box(shape)
    IN  [exporter |-> PDFExporter_new(l, d, opts.used_font),
         parent_transform |-> Identity,
         self |-> IF shape.kind = "Style" THEN shape
                  ELSE [shape EXCEPT !.local_transform =
                          Mul(half_translation(size[1], size[2]), @)]]

\* write_to_pdf_with_options(&self, ..) up to the call of
\* self.write_into_exporter(&mut exporter, &parent_transform): the exporter,
\* the parent transform and the receiver self the walk is started on
write_to_pdf_with_options(shape, l, opts, d) ==
    LET size == IF IsSome(opts.size) THEN Unwrap(opts.size)
                ELSE local_bounding_box(shape)
    IN  [exporter |-> PDFExporter_new(l, d, opts.used_font),
         parent_transform |-> half_translation(size[1], size[2]),
         self |-> shape]

\* to_pdf_with_options that sizes the page by the bounding box whatever
\* options.size holds
to_pdf_with_options_boxed(shape, opts) ==
    LET size == local_bounding_box(shape)
        opts1 == [opts EXCEPT !.size = Some(size)]
        d == PdfDocument_new(size)
    IN  write_to_pdf_with_options(shape, NewLayer, opts1, d)

\* to_pdf_with_options that makes the page of the bounding box and hands the
\* options on as it got them
to_pdf_with_options_own_page(shape, opts) ==
    LET d == PdfDocument_new(local_bounding_box(shape))
    IN  write_to_pdf_with_options(shape, NewLayer, opts, d)

\* to_pdf_with_options up to its call of write_to_pdf_with_options
to_pdf_with_options(shape, opts) ==
    LET size == IF IsSome(opts.size) THEN Unwrap(opts.size)
                ELSE local_bounding_box(shape)
        opts1 == [opts EXCEPT !.size = Some(size)]
        d == PdfDocument_new(size)
    IN  write_to_pdf_with_options(shape, NewLayer, opts1, d)

EntryResult(ok, err, d) == [ok |-> ok, err |-> err, doc |-> d]

\* a return that hands out the document whatever the export returned
to_pdf_with_options_return_unchecked(res, d) ==
    EntryResult(TRUE, "none", Some(d))

\* self.write_to_pdf_with_options(layer, options, &doc)?; Ok(doc)
to_pdf_with_options_return(res, d) ==
    IF res.ok THEN EntryResult(TRUE, "none", Some(d))
    ELSE EntryResult(FALSE, res.err, None)

\* write_to_pdf_with_options returns what write_into_exporter returned
write_to_pdf_with_options_return(res) == EntryResult(res.ok, res.err, None)

----------------------------------------------------------------------------
(* Export traversal: Export::write_into_exporter, one step per callback *)

ShapeFrame(shape, parent_transform, path) ==
    [t |-> "shape", shape |-> <<shape>>, parent_transform |-> parent_transform,
     path |-> path]

EndStyleFrame(path) ==
    [t |-> "end_style", shape |-> <<>>, parent_transform |-> Identity,
     path |-> path]

Top == Head(stack)
TopShape == Top.shape[1]
TopIs(kind) == /\ pc = "walking" /\ stack # <<>>
               /\ Top.t = "shape" /\ TopShape.kind = kind

\* Exporter::CAN_EXPORT_ELLIPSE of the backend in use
CanExportEllipse == IF backend = "pdf" THEN CAN_EXPORT_ELLIPSE ELSE TRUE

\* what a callback may return: the PDF exporter's result, or for the
\* recording backend success or an error of its own
Outcomes(pdf_ret) ==
    IF backend = "pdf" THEN {pdf_ret}
    ELSE {Ret(Self, Ok), Ret(Self, Err("Mock"))}

\* the value the entry point returns once write_into_exporter returned res
EntryReturn(res, d) ==
    IF entry.name = "to_pdf_with_options"
      THEN to_pdf_with_options_return(res, d)
      ELSE write_to_pdf_with_options_return(res)

WalkFrame == UNCHANGED <<source, options, backend, entry, circle, applied,
                         previous, other, drawing, added, scope>>

\* a callback returned r: go on with next_stack, or abort on the error
Proceed(r, op, tf, arg, next_stack) ==
    /\ Returned(r)
    /\ calls' = Append(calls, Call(op, Top.path, tf, arg, r.res))
    /\ IF r.res.ok
         THEN /\ stack' = next_stack
              /\ UNCHANGED <<pc, result>>
         ELSE /\ stack' = <<>>
              /\ pc' = "failed"
              /\ result' = Some(EntryReturn(r.res, r.self.doc))
    /\ UNCHANGED tree
    /\ WalkFrame

\* the entry point is called and sets up the exporter and parent transform
Begin ==
    /\ pc = "start"
    /\ LET w == CASE entry.name = "to_pdf_with_options" ->
                       to_pdf_with_options(tree, options)
                  [] entry.name = "write_to_pdf_with_options" ->
                       write_to_pdf_with_options(tree, layer, options, doc)
                  [] OTHER ->
                       [exporter |-> Self,
                        parent_transform |-> entry.parent_transform,
                        self |-> tree]
       IN  /\ Returned([self |-> w.exporter])
           /\ tree' = w.self
           /\ stack' = <<ShapeFrame(w.self, w.parent_transform, <<>>)>>
    /\ pc' = "walking"
    /\ UNCHANGED <<calls, result>>
    /\ WalkFrame

VisitGroup ==
    /\ TopIs("Group")
    /\ LET g == TopShape
           parent_transform == Mul(Top.parent_transform, g.local_transform)
       IN  stack' = [i \in 1..Len(g.shapes) |->
                        ShapeFrame(g.shapes[i], parent_transform,
                                   Append(Top.path, i))]
                    \o Tail(stack)
    /\ UNCHANGED <<layer, doc, used_font, calls, pc, result, tree>>
    /\ WalkFrame

VisitStyle ==
    /\ TopIs("Style")
    /\ LET st == TopShape
           sp == StylePosition(st.fill, st.stroke)
       IN  \E r \in Outcomes(start_style(Self, sp)) :
              Proceed(r, "start_style", None, <<sp>>,
                      <<ShapeFrame(st.shape, Top.parent_transform,
                                   Append(Top.path, 1)),
                        EndStyleFrame(Top.path)>> \o Tail(stack))

EndStyle ==
    /\ pc = "walking" /\ stack # <<>> /\ Top.t = "end_style"
    /\ \E r \in Outcomes(end_style(Self)) :
          Proceed(r, "end_style", None, <<>>, Tail(stack))

VisitEllipse ==
    /\ TopIs("Ellipse")
    /\ LET abs == Mul(Top.parent_transform, TopShape.local_transform)
       IN  IF CanExportEllipse
             THEN LET ep == ellipse_position(TopShape, Top.parent_transform)
                  IN  \E r \in Outcomes(Ret(Self, Ok)) :
                         Proceed(r, "export_ellipse", Some(abs), <<ep>>,
                                 Tail(stack))
             ELSE LET cp == curve_position(as_curve(TopShape),
                                           Top.parent_transform)
                  IN  \E r \in Outcomes(export_curve(Self, cp)) :
                         Proceed(r, "export_curve", Some(abs), <<cp>>,
                                 Tail(stack))

VisitCurve ==
    /\ TopIs("Curve")
    /\ LET abs == Mul(Top.parent_transform, TopShape.local_transform)
           cp == curve_position(TopShape, Top.parent_transform)
       IN  \E r \in Outcomes(export_curve(Self, cp)) :
              Proceed(r, "export_curve", Some(abs), <<cp>>, Tail(stack))

VisitText ==
    /\ TopIs("Text")
    /\ LET abs == Mul(Top.parent_transform, TopShape.local_transform)
           tp == text_position(TopShape, Top.parent_transform)
       IN  \E r \in Outcomes(export_text(Self, tp)) :
              Proceed(r, "export_text", Some(abs), <<tp>>, Tail(stack))

VisitImage ==
    /\ TopIs("Image")
    /\ LET abs == Mul(Top.parent_transform, TopShape.local_transform)
           ip == image_position(TopShape, Top.parent_transform)
       IN  \E r \in Outcomes(export_image(Self, ip)) :
              Proceed(r, "export_image", Some(abs), <<ip>>, Tail(stack))

\* every shape is written: the entry point returns
Finish ==
    /\ pc = "walking" /\ stack = <<>>
    /\ pc' = "done"
    /\ result' = Some(EntryReturn(Ok, doc))
    /\ UNCHANGED <<layer, doc, used_font, calls, stack, tree>>
    /\ WalkFrame

\* the entry point returned; the caller exports the same tree once more,
\* with the same options, onto the same layer and document
Again ==
    /\ pc \in {"done", "failed"} /\ previous = None
    /\ previous' = Some(calls)
    /\ calls' = <<>>
    /\ result' = None
    /\ pc' = "start"
    /\ UNCHANGED <<layer, doc, used_font, stack, source, tree, options,
                   backend, entry, circle, applied, other, drawing, added, scope>>

----------------------------------------------------------------------------
(* The drawings that are exported *)

D(dessin_type) == Dessin(dessin_type, None)

Plain(actions) == ShapeActions(FALSE, actions)
Styled(actions) == ShapeActions(TRUE, actions)

SegmentActions == <<Action("then", KPoint(P00)), Action("then", KPoint(P11))>>

\* [ Circle: #( fill stroke radius ), Curve: ( .. ) ]
SrcLocality ==
    D(DessinGroup(<<
        D(DessinItem("Circle", Styled(<<Action("fill", RED),
                                        Action("stroke", Dashed(BLACK, 1, 30, 15)),
                                        Action("radius", 2)>>))),
        D(DessinItem("Curve", Plain(SegmentActions))) >>))

\* Circle: #( stroke translate={[5,5]} radius={10} )
SrcRoundTrip ==
    D(DessinItem("Circle", Styled(<<Action("stroke", Full(BLACK, 10)),
                                    Action("translate", <<5, 5>>),
                                    Action("radius", 10)>>)))

\* [ Curve, Text, Image, Circle ]
SrcKinds ==
    D(DessinGroup(<<
        D(DessinItem("Curve", Plain(SegmentActions))),
        D(DessinItem("Text", Plain(<<Action("text", "a"),
                                     Action("font", "serif")>>))),
        D(DessinItem("Image", Plain(<<Action("translate", <<1, 1>>)>>))),
        D(DessinItem("Circle", Plain(<<>>))) >>))

\* [ Text, for x in [3, 1, 2] { Circle: ( radius={x} ) }, Curve ]
SrcFor ==
    D(DessinGroup(<<
        D(DessinItem("Text", Plain(<<Action("text", "b")>>))),
        D(DessinFor(<<3, 1, 2>>,
                    [x \in 1..3 |->
                       D(DessinItem("Circle", Plain(<<Action("radius", x)>>)))])),
        D(DessinItem("Curve", Plain(SegmentActions))) >>))

\* [ [ Circle: ( translate ) ] -> ( rotate ), Curve ] -> ( translate )
SrcNested ==
    Dessin(DessinGroup(<<
        Dessin(DessinGroup(<<
            D(DessinItem("Circle", Plain(<<Action("translate", <<1, 0>>)>>))) >>),
            Some(Plain(<<Action("rotate", 1)>>))),
        D(DessinItem("Curve", Plain(SegmentActions))) >>),
        Some(Plain(<<Action("translate", <<2, 1>>)>>)))

\* [ Curve: ( then={Bezier without start} closed ), Circle ]
SrcMissingStart ==
    D(DessinGroup(<<
        D(DessinItem("Curve", Plain(<<Action("then", KBezier(None, P10, P11, P01)),
                                      Action("closed", TRUE)>>))),
        D(DessinItem("Circle", Plain(<<>>))) >>))

\* [ Text serif, Text serif, Text broken, Circle ]
SrcFonts ==
    D(DessinGroup(<<
        D(DessinItem("Text", Plain(<<Action("text", "c"),
                                     Action("font", "serif")>>))),
        D(DessinItem("Text", Plain(<<Action("text", "d"),
                                     Action("font", "serif")>>))),
        D(DessinItem("Text", Plain(<<Action("text", "e"),
                                     Action("font", "broken")>>))),
        D(DessinItem("Circle", Plain(<<>>))) >>))

\* [ Circle: #( stroke ), Curve ] -> #( fill stroke )
SrcNestedStyle ==
    Dessin(DessinGroup(<<
        D(DessinItem("Circle", Styled(<<Action("stroke", Full(GREY, 2))>>))),
        D(DessinItem("Curve", Plain(SegmentActions))) >>),
        Some(Styled(<<Action("fill", RED),
                      Action("stroke", Dashed(BLACK, 1, 30, 15))>>)))

\* [ Circle: ( translate ), Curve ]: two shapes that lie apart
SrcApart ==
    D(DessinGroup(<<
        D(DessinItem("Circle", Plain(<<Action("translate", <<3, 0>>)>>))),
        D(DessinItem("Curve", Plain(SegmentActions))) >>))

SharedCircle == Circle_radius(Circle_default, 2)

\* [ if c { Circle }, if c { Circle } else { Curve }, if !c { Image },
\*   cloned(v): ( rotate ), var(v): ( translate ),
\*   if !c { Curve } else { Circle } ]
SrcBranches ==
    D(DessinGroup(<<
        D(DessinIfElse(FALSE, D(DessinItem("Circle", Plain(<<>>))), None)),
        D(DessinIfElse(FALSE, D(DessinItem("Circle", Plain(<<>>))),
                       Some(D(DessinItem("Curve", Plain(SegmentActions)))))),
        D(DessinIfElse(TRUE, D(DessinItem("Image", Plain(<<>>))), None)),
        D(DessinCloned(SharedCircle, Plain(<<Action("rotate", 1)>>))),
        D(DessinVar(SharedCircle, Plain(<<Action("translate", <<1, 2>>)>>))),
        D(DessinIfElse(TRUE, D(DessinItem("Curve", Plain(SegmentActions))),
                       Some(D(DessinItem("Circle", Plain(<<>>)))))) >>))

Sources == { SrcLocality, SrcRoundTrip, SrcKinds, SrcFor, SrcNested,
             SrcMissingStart, SrcFonts, SrcNestedStyle, SrcBranches,
             SrcApart }

\* PDFOptions.size, in 1/Unit
Sizes == { None, Some(<<8, 12>>) }

\* parent transforms handed to write_into_exporter directly
ParentTransforms == { Identity, Translation2(1, 2) }

Entry(name, parent_transform) ==
    [name |-> name, parent_transform |-> parent_transform]

----------------------------------------------------------------------------
(* Specification Spec: one export of one drawing *)

Init ==
    /\ source \in Sources
    /\ tree = Shape_from(eval(source))
    /\ backend \in {"pdf", "mock"}
    /\ entry \in IF backend = "pdf"
                   THEN { Entry("to_pdf_with_options", Identity),
                          Entry("write_to_pdf_with_options", Identity) }
                   ELSE { Entry("write_into_exporter", p) :
                            p \in ParentTransforms }
    /\ options \in IF backend = "pdf"
                     THEN { [size |-> sz, used_font |-> uf] :
                              sz \in Sizes, uf \in FontTables }
                     ELSE { [size |-> None, used_font |-> EmptyMap] }
    /\ layer \in IF entry.name = "write_to_pdf_with_options"
                   THEN { [gs |-> g, ops |-> <<>>] : g \in InitialGS }
                   ELSE { NewLayer }
    /\ doc = IF entry.name = "write_to_pdf_with_options"
               THEN PdfDocument_new(<<20, 20>>)
               ELSE [size |-> None, fonts |-> <<>>]
    /\ used_font = EmptyMap
    /\ calls = <<>>
    /\ stack = <<>>
    /\ pc = "start"
    /\ result = None
    /\ circle = None
    /\ applied = <<>>
    /\ previous = None
    /\ drawing = None
    /\ added = <<>>
    /\ scope = None
    /\ other = None

Next ==
    \/ Begin
    \/ VisitGroup
    \/ VisitStyle
    \/ EndStyle
    \/ VisitEllipse
    \/ VisitCurve
    \/ VisitText
    \/ VisitImage
    \/ Finish
    \/ Again

Spec == Init /\ [][Next]_vars

----------------------------------------------------------------------------
(* Specification SpecPar: two exports of one tree, interleaved *)

\* an export that is not running: the exporter it owns (layer, document,
\* font table), its options, its position in the walk with the parent
\* transforms of the pending frames, and its callback log
Suspended(id, l, d, uf, opts, log, st, at, res) ==
    [id |-> id, layer |-> l, doc |-> d, used_font |-> uf, options |-> opts,
     calls |-> log, stack |-> st, pc |-> at, result |-> res]

\* one font table that every exporter uses
font_table_of_static(o) == used_font

\* PDFExporter.used_font: the font table of an exporter is a field of its
\* own, moved into it from its options by PDFExporter::new
font_table_of(o) == o.used_font

\* the document a caller of write_to_pdf_with_options hands in
CallerDoc == IF entry.name = "write_to_pdf_with_options"
               THEN PdfDocument_new(<<20, 20>>)
               ELSE [size |-> None, fonts |-> <<>>]

InitPar ==
    /\ source \in Sources
    /\ tree = Shape_from(eval(source))
    /\ backend = "pdf"
    /\ entry \in { Entry("to_pdf_with_options", Identity),
                    Entry("write_to_pdf_with_options", Identity) }
    /\ \E sz \in Sizes, uf1 \in FontTables, uf2 \in FontTables :
          /\ options = [size |-> sz, used_font |-> uf1]
          /\ other = Some(Suspended(2, NewLayer, CallerDoc, EmptyMap,
                                    [size |-> sz, used_font |-> uf2],
                                    <<>>, <<>>, "start", None))
    /\ layer = NewLayer
    /\ doc = CallerDoc
    /\ used_font = EmptyMap
    /\ calls = <<>>
    /\ stack = <<>>
    /\ pc = "start"
    /\ result = None
    /\ circle = None
    /\ applied = <<>>
    /\ previous = None
    /\ drawing = None
    /\ added = <<>>
    /\ scope = None

\* the running export is suspended and the other one goes on
Switch ==
    /\ IsSome(other)
    /\ LET o == Unwrap(other)
       IN  /\ other' = Some(Suspended(3 - o.id, layer, doc, used_font,
                                      options, calls, stack, pc, result))
           /\ layer' = o.layer
           /\ doc' = o.doc
           /\ used_font' = font_table_of(o)
           /\ options' = o.options
           /\ calls' = o.calls
           /\ stack' = o.stack
           /\ pc' = o.pc
           /\ result' = o.result
    /\ UNCHANGED <<source, tree, backend, entry, circle, applied, previous,
                   drawing, added, scope>>

NextPar ==
    \/ Begin
    \/ VisitGroup
    \/ VisitStyle
    \/ EndStyle
    \/ VisitEllipse
    \/ VisitCurve
    \/ VisitText
    \/ VisitImage
    \/ Finish
    \/ Switch

SpecPar == InitPar /\ [][NextPar]_vars

----------------------------------------------------------------------------
(* Specification SpecShape: shape operations applied to one Circle *)

Matrices == { Translation2(1, 0), Rotation2Quarter, Scale2(2, 3) }
Offsets == { <<1, 0>>, <<0, 2>> }
QuarterTurns == { 1, 2 }
Radii == { 2, 3 }

InitShape ==
    /\ \E l0 \in { Identity, Rotation2Quarter, Translation2(1, 2) } :
          /\ circle = Some([kind |-> "Circle", local_transform |-> l0])
          /\ source = circle
    /\ applied = <<>>
    /\ pc = "shape"
    /\ layer = NewLayer
    /\ doc = [size |-> None, fonts |-> <<>>]
    /\ used_font = EmptyMap
    /\ options = [size |-> None, used_font |-> EmptyMap]
    /\ calls = <<>>
    /\ tree = None
    /\ backend = "none"
    /\ entry = Entry("none", Identity)
    /\ stack = <<>>
    /\ result = None
    /\ previous = None
    /\ drawing = None
    /\ added = <<>>
    /\ scope = None
    /\ other = None

ShapeFrameVars == UNCHANGED <<layer, doc, used_font, calls, source, tree,
                              options, backend, entry, stack, pc, result,
                              previous, other, drawing, added, scope>>

CanApply == pc = "shape" /\ Len(applied) < MaxOps

\* circle.transform(m)
OpTransform ==
    /\ CanApply
    /\ \E m \in Matrices :
          /\ circle' = Some(Circle_transform(Unwrap(circle), m))
          /\ applied' = Append(applied, m)
    /\ ShapeFrameVars

\* circle.translate(t)
OpTranslate ==
    /\ CanApply
    /\ \E t \in Offsets :
          /\ circle' = Some(ShapeOp_translate(Unwrap(circle), t))
          /\ applied' = Append(applied, Translation2(t[1], t[2]))
    /\ ShapeFrameVars

\* circle.rotate(r)
OpRotate ==
    /\ CanApply
    /\ \E q \in QuarterTurns :
          /\ circle' = Some(ShapeOp_rotate(Unwrap(circle), q))
          /\ applied' = Append(applied,
                               IF q = 1 THEN Rotation2Quarter
                               ELSE Scale2(-1, -1))
    /\ ShapeFrameVars

\* circle.scale(s)
OpScale ==
    /\ CanApply
    /\ \E sc \in { <<2, 1>> } :
          /\ circle' = Some(ShapeOp_resize(Unwrap(circle), sc))
          /\ applied' = Append(applied, Scale2(sc[1], sc[2]))
    /\ ShapeFrameVars

\* circle.radius(r) and circle.with_radius(r)
OpRadius ==
    /\ CanApply
    /\ \E r \in Radii :
          /\ \/ circle' = Some(Circle_radius(Unwrap(circle), r))
             \/ circle' = Some(Circle_with_radius(Unwrap(circle), r))
          /\ applied' = Append(applied, Scale2(r, r))
    /\ ShapeFrameVars

\* circle.local_transform(): the value read is kept in result
OpLocalTransform ==
    /\ pc = "shape"
    /\ LET r == Circle_local_transform(Unwrap(circle))
       IN  /\ circle' = Some(r.self)
           /\ result' = Some(r.value)
    /\ UNCHANGED <<layer, doc, used_font, calls, source, tree, options,
                   backend, entry, stack, pc, applied, previous, other,
                   drawing, added, scope>>

NextShape ==
    \/ OpTransform
    \/ OpTranslate
    \/ OpRotate
    \/ OpScale
    \/ OpRadius
    \/ OpLocalTransform

SpecShape == InitShape /\ [][NextShape]_vars

----------------------------------------------------------------------------
(* Specification SpecDrawing: shapes added to one Drawing *)

\* position::Rect: Rect::new().at(pos).with_size(size)
Rect(pos, size) == [pos |-> pos, size |-> size]

Abs(x) == IF x < 0 THEN -x ELSE x

\* Drawing::empty()
Drawing_empty == [canvas_size |-> <<0, 0>>, shapes |-> <<>>]

\* Drawing::with_canvas_size
with_canvas_size(self, canvas_size) ==
    [self EXCEPT !.canvas_size = canvas_size]

\* Drawing::shapes
Drawing_shapes(self) == self.shapes

\* shapes::Shape { pos, style, shape_type }
DrawingShape(pos, style, shape_type) ==
    [pos |-> pos, style |-> style, shape_type |-> shape_type]

\* an add that puts the shape in front of the others
add_Text_in_front(self, shape) ==
    [self EXCEPT !.shapes =
        << DrawingShape(shape.pos, shape.style,
                        [type |-> "Text", text |-> shape.text,
                         align |-> shape.align,
                         font_size |-> shape.font_size,
                         font_weight |-> shape.font_weight]) >> \o @]

\* impl AddShape<Text> for Drawing
add_Text(self, shape) ==
    [self EXCEPT !.shapes =
        Append(@, DrawingShape(shape.pos, shape.style,
                               [type |-> "Text", text |-> shape.text,
                                align |-> shape.align,
                                font_size |-> shape.font_size,
                                font_weight |-> shape.font_weight]))]

\* impl AddShape<Line> for Drawing: the position is the box of the segment
add_Line(self, shape) ==
    LET pos == Rect(<< (shape.from[1] + shape.to[1]) \div 2,
                       (shape.from[2] + shape.to[2]) \div 2 >>,
                    << Abs(shape.from[1] - shape.to[1]),
                       Abs(shape.from[2] - shape.to[2]) >>)
    IN  [self EXCEPT !.shapes =
            Append(@, DrawingShape(pos, shape.style,
                                   [type |-> "Line", from |-> shape.from,
                                    to |-> shape.to]))]

\* impl AddShape<Arc> for Drawing
add_Arc(self, shape) ==
    [self EXCEPT !.shapes =
        Append(@, DrawingShape(shape.pos, shape.style,
                               [type |-> "Arc",
                                inner_radius |-> shape.inner_radius,
                                outer_radius |-> shape.outer_radius,
                                start_angle |-> shape.start_angle,
                                end_angle |-> shape.end_angle]))]

\* impl AddShape<Image> for Drawing
add_Image(self, shape) ==
    [self EXCEPT !.shapes =
        Append(@, DrawingShape(shape.pos, shape.style,
                               [type |-> "Image", data |-> shape.data]))]

\* the shapes handed to add, lengths in 1/Unit
DrawingStyles == { None, Some(StylePosition(Some(RED), None)) }
Texts == { [variant |-> "Text", pos |-> Rect(Point2(50, 50), <<0, 0>>),
            style |-> st, text |-> "Hello World", align |-> "Left",
            font_size |-> 16, font_weight |-> "Regular"]
           : st \in DrawingStyles }
Lines == { [variant |-> "Line", from |-> Point2(0, 0), to |-> t,
            style |-> None] : t \in { Point2(100, 100), Point2(-4, 6) } }
Arcs == { [variant |-> "Arc", pos |-> Rect(Point2(50, 50), <<0, 0>>),
           style |-> None, inner_radius |-> 10, outer_radius |-> 50,
           start_angle |-> 0, end_angle |-> 135] }
Images == { [variant |-> "Image", pos |-> Rect(Point2(50, 50), <<10, 10>>),
             style |-> None, data |-> "webp"] }
CanvasSizes == { <<100, 100>> }

InitDrawing ==
    /\ drawing = Some(Drawing_empty)
    /\ added = <<>>
    /\ scope = None
    /\ pc = "drawing"
    /\ layer = NewLayer
    /\ doc = [size |-> None, fonts |-> <<>>]
    /\ used_font = EmptyMap
    /\ options = [size |-> None, used_font |-> EmptyMap]
    /\ calls = <<>>
    /\ source = None
    /\ tree = None
    /\ backend = "none"
    /\ entry = Entry("none", Identity)
    /\ stack = <<>>
    /\ result = None
    /\ circle = None
    /\ applied = <<>>
    /\ previous = None
    /\ other = None

DrawingFrame == UNCHANGED <<layer, doc, used_font, calls, source, tree,
                            options, backend, entry, stack, pc, result,
                            circle, applied, previous, other, scope>>

CanAdd == pc = "drawing" /\ Len(added) < MaxShapes

\* Drawing::empty().with_canvas_size(size)
WithCanvasSize ==
    /\ pc = "drawing" /\ added = <<>>
    /\ \E size \in CanvasSizes :
          drawing' = Some(with_canvas_size(Unwrap(drawing), size))
    /\ UNCHANGED added
    /\ DrawingFrame

AddText ==
    /\ CanAdd
    /\ \E shape \in Texts :
          /\ drawing' = Some(add_Text(Unwrap(drawing), shape))
          /\ added' = Append(added, shape)
    /\ DrawingFrame

AddLine ==
    /\ CanAdd
    /\ \E shape \in Lines :
          /\ drawing' = Some(add_Line(Unwrap(drawing), shape))
          /\ added' = Append(added, shape)
    /\ DrawingFrame

AddArc ==
    /\ CanAdd
    /\ \E shape \in Arcs :
          /\ drawing' = Some(add_Arc(Unwrap(drawing), shape))
          /\ added' = Append(added, shape)
    /\ DrawingFrame

AddImage ==
    /\ CanAdd
    /\ \E shape \in Images :
          /\ drawing' = Some(add_Image(Unwrap(drawing), shape))
          /\ added' = Append(added, shape)
    /\ DrawingFrame

NextDrawing ==
    \/ WithCanvasSize
    \/ AddText
    \/ AddLine
    \/ AddArc
    \/ AddImage

SpecDrawing == InitDrawing /\ [][NextDrawing]_vars

----------------------------------------------------------------------------
(* Specification SpecReuse: a let-bound shape reused by cloned and var *)

\* scope.heap holds the shape instances alive, an instance being named by
\* its index; scope.v is the instance the variable v owns, None once v was
\* moved; scope.groups are the children, as instances, of two groups under
\* construction; scope.last is the statement that ran last.
Statement(op, g, id) == [op |-> op, g |-> g, id |-> id]

\* let v = ...: a new instance, owned by v
let_binding(s, shape) ==
    [s EXCEPT !.heap = Append(@, shape),
              !.v = Some(Len(s.heap) + 1),
              !.last = Statement("let", 0, Len(s.heap) + 1),
              !.steps = @ + 1]

\* cloned(v) without the clone: the actions run on v's own instance, which
\* the group and v both hold afterwards
expand_cloned_by_reference(s, g, shape_actions) ==
    LET id == Unwrap(s.v)
        value == Shape_from(eval(Dessin(DessinCloned(s.heap[id],
                                                     shape_actions), None)))
    IN  [s EXCEPT !.heap[id] = value,
                  !.groups[g] = Append(@, id),
                  !.last = Statement("cloned", g, id),
                  !.steps = @ + 1]

\* cloned(v): ( actions ) as a child of group g: #var.clone() is a new
\* instance, the actions run on it and the group owns it; v keeps its own
expand_cloned(s, g, shape_actions) ==
    LET id == Len(s.heap) + 1
        value == Shape_from(eval(Dessin(DessinCloned(s.heap[Unwrap(s.v)],
                                                     shape_actions), None)))
    IN  [s EXCEPT !.heap = Append(@, value),
                  !.groups[g] = Append(@, id),
                  !.last = Statement("cloned", g, id),
                  !.steps = @ + 1]

\* var(v): ( actions ) as a child of group g: #var is v itself, moved out of
\* the variable; the actions run on it and the group owns it
expand_var(s, g, shape_actions) ==
    LET id == Unwrap(s.v)
        value == Shape_from(eval(Dessin(DessinVar(s.heap[id], shape_actions),
                                        None)))
    IN  [s EXCEPT !.heap[id] = value,
                  !.groups[g] = Append(@, id),
                  !.v = None,
                  !.last = Statement("var", g, id),
                  !.steps = @ + 1]

\* group.shapes[i].transform(m): a write to the instance the group holds
transform_child(s, g, i, m) ==
    LET id == s.groups[g][i]
    IN  [s EXCEPT !.heap[id] = ShapeOp_transform(@, m),
                  !.last = Statement("transform", g, id),
                  !.steps = @ + 1]

ReuseActions ==
    { ShapeActions(FALSE, <<>>),
      ShapeActions(FALSE, <<Action("rotate", 1)>>),
      ShapeActions(TRUE, <<Action("fill", RED),
                           Action("translate", <<1, 2>>)>>) }

InitReuse ==
    /\ scope = Some([heap |-> <<Circle_radius(Circle_default, 2)>>,
                     v |-> Some(1),
                     groups |-> << <<>>, <<>> >>,
                     last |-> Statement("let", 0, 1),
                     steps |-> 0])
    /\ pc = "reuse"
    /\ layer = NewLayer
    /\ doc = [size |-> None, fonts |-> <<>>]
    /\ used_font = EmptyMap
    /\ options = [size |-> None, used_font |-> EmptyMap]
    /\ calls = <<>>
    /\ source = None
    /\ tree = None
    /\ backend = "none"
    /\ entry = Entry("none", Identity)
    /\ stack = <<>>
    /\ result = None
    /\ circle = None
    /\ applied = <<>>
    /\ previous = None
    /\ other = None
    /\ drawing = None
    /\ added = <<>>

ReuseFrame == UNCHANGED <<layer, doc, used_font, calls, source, tree,
                          options, backend, entry, stack, pc, result, circle,
                          applied, previous, other, drawing, added>>

CanReuse == pc = "reuse" /\ Unwrap(scope).steps < MaxStatements

\* let v = Circle ..., once v was moved
LetBinding ==
    /\ CanReuse /\ Unwrap(scope).v = None
    /\ scope' = Some(let_binding(Unwrap(scope),
                                 Circle_radius(Circle_default, 3)))
    /\ ReuseFrame

\* a group literal gets the child cloned(v): ( actions )
UseCloned ==
    /\ CanReuse /\ IsSome(Unwrap(scope).v)
    /\ \E g \in {1, 2}, a \in ReuseActions :
          scope' = Some(expand_cloned(Unwrap(scope), g, a))
    /\ ReuseFrame

\* a group literal gets the child var(v): ( actions )
UseVar ==
    /\ CanReuse /\ IsSome(Unwrap(scope).v)
    /\ \E g \in {1, 2}, a \in ReuseActions :
          scope' = Some(expand_var(Unwrap(scope), g, a))
    /\ ReuseFrame

\* one child of a group is transformed after the construction
TransformChild ==
    /\ CanReuse
    /\ \E g \in {1, 2} :
          \E i \in 1..Len(Unwrap(scope).groups[g]) :
             \E m \in { Translation2(1, 0), Rotation2Quarter } :
                scope' = Some(transform_child(Unwrap(scope), g, i, m))
    /\ ReuseFrame

NextReuse ==
    \/ LetBinding
    \/ UseCloned
    \/ UseVar
    \/ TransformChild

SpecReuse == InitReuse /\ [][NextReuse]_vars

----------------------------------------------------------------------------
(* Reading a tree and a callback log *)

\* the shape at a path: a Group's i-th child, a Style's only child
RECURSIVE NodeAt(_, _)
NodeAt(shape, path) ==
    IF path = <<>> THEN shape
    ELSE IF shape.kind = "Group"
           THEN NodeAt(shape.shapes[Head(path)], Tail(path))
           ELSE NodeAt(shape.shape, Tail(path))

\* the paths of all the nodes of a tree
RECURSIVE Paths(_)
Paths(shape) ==
    {<<>>} \cup
    (CASE shape.kind = "Group" ->
            UNION { { <<i>> \o p : p \in Paths(shape.shapes[i]) }
                    : i \in 1..Len(shape.shapes) }
       [] shape.kind = "Style" -> { <<1>> \o p : p \in Paths(shape.shape) }
       [] OTHER -> {})

IsPrefix(p, q) == Len(p) <= Len(q) /\ SubSeq(q, 1, Len(p)) = p

IsLeaf(shape) == shape.kind \notin {"Group", "Style"}

\* no Style encloses the node at the path
Unstyled(shape, path) ==
    \A k \in 0..(Len(path) - 1) :
        NodeAt(shape, SubSeq(path, 1, k)).kind # "Style"

\* parent * (local transforms of the groups from the root down) * own
RECURSIVE AbsAt(_, _, _)
AbsAt(shape, path, parent_transform) ==
    IF path = <<>>
      THEN Mul(parent_transform, shape.local_transform)
      ELSE IF shape.kind = "Group"
             THEN AbsAt(shape.shapes[Head(path)], Tail(path),
                        Mul(parent_transform, shape.local_transform))
             ELSE AbsAt(shape.shape, Tail(path), parent_transform)

\* the parent transform the entry point starts the walk with
RootParent ==
    IF entry.name = "write_into_exporter" THEN entry.parent_transform
    ELSE LET size == IF IsSome(options.size) THEN Unwrap(options.size)
                     ELSE local_bounding_box(tree)
         IN  <<1, 0, 0, 1, size[1] \div 2, size[2] \div 2>>

Indices(seq) == 1..Len(seq)

DrawCalls == { i \in Indices(calls) : calls[i].op \in DrawOps }

AllOk == \A i \in Indices(calls) : calls[i].res.ok

Walking == pc \in {"walking", "done", "failed"}

\* the graphics state of the layer when callback i returned
GsAfter(i) == IF i = Len(calls) THEN layer.gs ELSE calls[i + 1].gs

----------------------------------------------------------------------------
(* Style locality and style reset *)

\* C1: style locality. In an export through the PDF exporter, a shape that
\* no Style encloses and that is drawn after a styled shape was closed by
\* end_style is drawn with the default fill colour, outline colour, outline
\* thickness and dash pattern, not with what start_style had set.
C1_StyleLocality ==
    (Walking /\ backend = "pdf") =>
        \A i \in DrawCalls :
            ( /\ Unstyled(tree, calls[i].path)
              /\ \E j \in 1..(i - 1) : calls[j].op = "end_style" )
            => calls[i].gs = DefaultGS

\* Group[Style(A, fill, dashed stroke), B]: A was drawn red and dashed, B is
\* being drawn right after end_style
C1_Witness ==
    /\ Walking /\ backend = "pdf" /\ source = SrcLocality
    /\ \E i \in DrawCalls :
          /\ calls[i].path = <<2>>
          /\ i > 3
          /\ calls[i - 1].op = "end_style"
          /\ calls[i - 2].path = <<1, 1>>
          /\ calls[i - 2].gs.fill_color = PdfRgb(<<1000, 0, 0>>)
          /\ IsSome(calls[i - 2].gs.dash_pattern.dash_1)
          /\ calls[i].gs.fill_color = PdfRgb(<<0, 0, 0>>)

\* C2: after end_style returns, outline colour, outline thickness, dash
\* pattern and fill colour of the layer are the defaults (black, 0, no dash,
\* black), whatever the calls before it were.
C2_EndStyleResets ==
    pc = "calls" =>
        \A i \in Indices(calls) :
            calls[i].op = "end_style" => GsAfter(i) = DefaultGS

\* end_style right after a start_style that set a fill and a dashed stroke
C2_Witness ==
    /\ pc = "calls" /\ Len(calls) >= 2
    /\ calls[Len(calls)].op = "end_style"
    /\ calls[Len(calls) - 1].op = "start_style"
    /\ calls[Len(calls)].gs.fill_color = PdfRgb(<<1000, 0, 0>>)
    /\ IsSome(calls[Len(calls)].gs.dash_pattern.dash_1)
    /\ calls[Len(calls)].gs.outline_thickness > 0
    /\ layer.gs = DefaultGS

----------------------------------------------------------------------------
(* Traversal order *)

StylePaths == { p \in Paths(tree) : NodeAt(tree, p).kind = "Style" }

CallsAt(op, path) ==
    { i \in Indices(calls) : calls[i].op = op /\ calls[i].path = path }

OpsOf(log) == [i \in Indices(log) |-> log[i].op]

\* C3: every styled shape is bracketed. start_style carries the shape's own
\* StylePosition and nothing of the shape precedes it; between it and its
\* end_style lie only callbacks of the styled shape; nothing of the shape
\* follows end_style; and a finished export has bracketed every styled shape
\* exactly once. A styled Circle exported through the PDF exporter gives
\* exactly start_style, export_curve, end_style.
C3_StyleBrackets ==
    Walking =>
      /\ \A i \in Indices(calls) :
            calls[i].op = "start_style" =>
               LET p == calls[i].path
                   node == NodeAt(tree, p)
               IN  /\ node.kind = "Style"
                   /\ calls[i].arg = <<StylePosition(node.fill, node.stroke)>>
                   /\ \A k \in 1..(i - 1) : ~IsPrefix(p, calls[k].path)
      /\ \A j \in Indices(calls) :
            calls[j].op = "end_style" =>
               LET p == calls[j].path
               IN  /\ \E i \in 1..(j - 1) :
                         /\ calls[i].op = "start_style"
                         /\ calls[i].path = p
                         /\ \A k \in (i + 1)..(j - 1) :
                               IsPrefix(Append(p, 1), calls[k].path)
                   /\ \A k \in (j + 1)..Len(calls) :
                         ~IsPrefix(p, calls[k].path)
      /\ pc = "done" =>
            \A p \in StylePaths :
               /\ Cardinality(CallsAt("start_style", p)) = 1
               /\ Cardinality(CallsAt("end_style", p)) = 1
               /\ \A q \in Paths(tree) :
                     (IsPrefix(p, q) /\ IsLeaf(NodeAt(tree, q))) =>
                        \E k \in DrawCalls :
                           /\ calls[k].path = q
                           /\ \E i \in CallsAt("start_style", p) : i < k
                           /\ \E j \in CallsAt("end_style", p) : k < j
      /\ ( /\ pc = "done" /\ backend = "pdf"
           /\ tree.kind = "Style" /\ tree.shape.kind = "Ellipse" )
         => OpsOf(calls) = <<"start_style", "export_curve", "end_style">>

\* the styled Circle of the round trip was exported through the PDF exporter
C3_Witness ==
    /\ pc = "done" /\ backend = "pdf" /\ source = SrcRoundTrip
    /\ Len(calls) = 3
    /\ calls[1].arg = <<StylePosition(None, Some(Full(BLACK, 10)))>>
    /\ calls[2].arg[1].closed

\* the callbacks that draw, in the order they were issued
DrawLog == SelectSeq(calls, LAMBDA c : c.op \in DrawOps)

RECURSIVE Unstyle(_)
Unstyle(v) == IF v.kind = "Style" THEN Unstyle(v.shape) ELSE v

\* the leaves of a shape tree, depth first, children in their order
RECURSIVE LeavesOf(_)
RECURSIVE LeavesFrom(_, _)
LeavesOf(shape) ==
    CASE shape.kind = "Group" -> LeavesFrom(shape.shapes, 1)
      [] shape.kind = "Style" -> LeavesOf(shape.shape)
      [] OTHER -> <<shape>>
LeavesFrom(shapes, i) ==
    IF i > Len(shapes) THEN <<>>
    ELSE LeavesOf(shapes[i]) \o LeavesFrom(shapes, i + 1)

\* the shapes a dessin! source names, in source order and, for a loop, in
\* iteration order
RECURSIVE SourceLeaves(_)
RECURSIVE SourceLeavesOfChildren(_, _)
RECURSIVE SourceLeavesOfLoop(_, _, _)
SourceLeaves(d) ==
    CASE d.ty = "Empty" -> <<>>
      [] d.ty \in {"Item", "Var", "Cloned"} -> LeavesOf(Shape_from(eval(d)))
      [] d.ty = "Group" -> SourceLeavesOfChildren(d.children, 1)
      [] d.ty = "For" -> SourceLeavesOfLoop(d.it, d.body, 1)
      [] d.ty = "IfElse" ->
            IF d.condition THEN SourceLeaves(d.if_body)
            ELSE IF IsSome(d.else_body) THEN SourceLeaves(Unwrap(d.else_body))
            ELSE <<>>
      [] d.ty = "Dessin" ->
            IF /\ IsSome(d.erased_type_shape_actions)
               /\ IsLeaf(Unstyle(Shape_from(eval(d.dessin_type))))
              THEN LeavesOf(Shape_from(eval(d)))
              ELSE SourceLeaves(d.dessin_type)
SourceLeavesOfChildren(children, i) ==
    IF i > Len(children) THEN <<>>
    ELSE SourceLeaves(children[i]) \o SourceLeavesOfChildren(children, i + 1)
SourceLeavesOfLoop(it, body, i) ==
    IF i > Len(it) THEN <<>>
    ELSE SourceLeaves(body[it[i]]) \o SourceLeavesOfLoop(it, body, i + 1)

\* path p comes before path q in the depth-first, child-order walk
RECURSIVE Before(_, _)
Before(p, q) ==
    /\ p # <<>> /\ q # <<>>
    /\ \/ Head(p) < Head(q)
       \/ Head(p) = Head(q) /\ Before(Tail(p), Tail(q))

\* C4: draw order. The drawing callbacks issued so far are, in order, the
\* first shapes the source names (group children in source order, loop
\* bodies in iteration order, nested groups depth first); a finished export
\* has drawn all of them; no callback of a later child precedes one of an
\* earlier child.
C4_DrawOrder ==
    Walking =>
      LET expected == SourceLeaves(source)
      IN  /\ Len(DrawLog) <= Len(expected)
          /\ \A k \in Indices(DrawLog) :
                NodeAt(tree, DrawLog[k].path) = expected[k]
          /\ pc = "done" => Len(DrawLog) = Len(expected)
          /\ \A i, j \in Indices(DrawLog) :
                i < j => Before(DrawLog[i].path, DrawLog[j].path)

\* [ Text, for x in [3, 1, 2] { Circle radius x }, Curve ] is drawn: Text,
\* the circles of radius 3, 1, 2, then the Curve
C4_Witness ==
    /\ pc = "done" /\ source = SrcFor
    /\ Len(DrawLog) = 5
    /\ DrawLog[1].op = "export_text"
    /\ NodeAt(tree, DrawLog[2].path).local_transform = Scale2(3, 3)
    /\ NodeAt(tree, DrawLog[3].path).local_transform = Scale2(1, 1)
    /\ NodeAt(tree, DrawLog[4].path).local_transform = Scale2(2, 2)
    /\ NodeAt(tree, DrawLog[5].path).kind = "Curve"

----------------------------------------------------------------------------
(* Ellipses *)

UnitCircle == { q \in (-Unit..Unit) \X (-Unit..Unit) :
                  q[1] * q[1] + q[2] * q[2] = Unit * Unit }

\* start (when present) and end of every keypoint of a resolved curve
Anchors(cp) ==
    UNION { IF cp.keypoints[k].kp = "Point" THEN {cp.keypoints[k].p}
            ELSE {cp.keypoints[k].end}
                 \cup (IF IsSome(cp.keypoints[k].start)
                         THEN {Unwrap(cp.keypoints[k].start)} ELSE {})
            : k \in Indices(cp.keypoints) }

EllipsePaths == { p \in Paths(tree) : NodeAt(tree, p).kind = "Ellipse" }

\* C5: ellipse capability fallback. Through the PDF exporter
\* (CAN_EXPORT_ELLIPSE = false) every Ellipse gets one export_curve call
\* with closed = true and four Bezier segments whose anchor points are
\* points of the unit circle mapped through the ellipse's absolute
\* transform; through a backend that draws ellipses, export_curve is never
\* called for an Ellipse.
C5_EllipseFallback ==
    Walking =>
      /\ \A p \in EllipsePaths :
            LET at == { i \in Indices(calls) : calls[i].path = p }
            IN  /\ Cardinality(at) <= 1
                /\ pc = "done" => Cardinality(at) = 1
                /\ \A i \in at :
                      IF backend = "pdf"
                        THEN LET cp == calls[i].arg[1]
                                 abs == AbsAt(tree, p, RootParent)
                             IN  /\ calls[i].op = "export_curve"
                                 /\ cp.closed
                                 /\ Len(cp.keypoints) = 4
                                 /\ \A k \in 1..4 : cp.keypoints[k].kp = "Bezier"
                                 /\ \A a \in Anchors(cp) :
                                       \E q \in UnitCircle : a = Apply(abs, q)
                                 /\ Cardinality(Anchors(cp)) = 4
                        ELSE calls[i].op = "export_ellipse"
      /\ backend # "pdf" =>
            \A i \in Indices(calls) :
                calls[i].op = "export_curve" =>
                    NodeAt(tree, calls[i].path).kind = "Curve"

\* a Circle of radius 10 translated by (5, 5) went through the PDF exporter
\* as a closed curve reaching from -5 to 15
C5_Witness ==
    /\ Walking /\ backend = "pdf" /\ source = SrcRoundTrip
    /\ entry.name = "write_to_pdf_with_options" /\ options.size = None
    /\ \E i \in Indices(calls) :
          /\ calls[i].op = "export_curve"
          /\ calls[i].path = <<1>>
          /\ Anchors(calls[i].arg[1]) =
                { Apply(RootParent, Point2(15, 5)),
                  Apply(RootParent, Point2(5, 15)),
                  Apply(RootParent, Point2(-5, 5)),
                  Apply(RootParent, Point2(5, -5)) }

\* a backend with native ellipses drew an Ellipse
C5_WitnessNative ==
    /\ Walking /\ backend = "mock"
    /\ \E i \in Indices(calls) : calls[i].op = "export_ellipse"

----------------------------------------------------------------------------
(* Errors *)

\* C6: fail-fast export. A callback that returned an error is the last
\* callback of the export: the walk has stopped, nothing is left to visit,
\* and the entry point has returned that error and no document. A
\* successful return follows only callbacks that all succeeded.
C6_FailFast ==
    Walking =>
      /\ \A i \in Indices(calls) :
            ~calls[i].res.ok =>
               /\ i = Len(calls)
               /\ pc = "failed"
               /\ stack = <<>>
               /\ result = Some(EntryResult(FALSE, calls[i].res.err, None))
      /\ pc = "failed" => (calls # <<>> /\ ~calls[Len(calls)].res.ok)
      /\ (IsSome(result) /\ Unwrap(result).ok) => (AllOk /\ pc = "done")
      /\ (IsSome(result) /\ IsSome(Unwrap(result).doc)) =>
            (AllOk /\ entry.name = "to_pdf_with_options")

\* to_pdf_with_options failed on the text with the broken font, the Circle
\* after it was never drawn
C6_Witness ==
    /\ pc = "failed" /\ backend = "pdf" /\ source = SrcFonts
    /\ entry.name = "to_pdf_with_options"
    /\ calls[Len(calls)].op = "export_text"
    /\ Len(DrawLog) < Len(LeavesOf(tree))
    /\ result = Some(EntryResult(FALSE, "PrintPDF", None))

\* the first keypoint of a resolved curve is a Bezier without start
MissingStart(cp) ==
    /\ cp.keypoints # <<>>
    /\ cp.keypoints[1].kp = "Bezier"
    /\ ~IsSome(cp.keypoints[1].start)

\* C7: missing-start error. Exporting, through the PDF exporter, a Curve
\* whose first keypoint is a Bezier with start omitted fails with
\* CurveHasNoStartingPoint and draws no line for it.
C7_MissingStartIsError ==
    (Walking /\ backend = "pdf") =>
        \A i \in Indices(calls) :
            (calls[i].op = "export_curve" /\ MissingStart(calls[i].arg[1])) =>
                /\ ~calls[i].res.ok
                /\ calls[i].res.err = "CurveHasNoStartingPoint"

----------------------------------------------------------------------------
(* Fonts *)

Count(seq, x) == Cardinality({ i \in Indices(seq) : seq[i] = x })

\* export_text calls that returned success for the pair
TextCallsOk(key) ==
    { i \in Indices(calls) :
        /\ calls[i].op = "export_text" /\ calls[i].res.ok
        /\ key = << IF IsSome(calls[i].arg[1].font)
                      THEN Unwrap(calls[i].arg[1].font) ELSE FontRef_default,
                    calls[i].arg[1].font_weight >> }

\* C8: font registration. Over any sequence of export_text calls a font is
\* embedded into the document exactly once per (font, weight) pair, on the
\* first use of the pair, and never for a pair already in the used_font
\* table passed in the options.
C8_FontEmbeddedOnce ==
    pc = "calls" =>
        \A f \in Fonts, w \in FontWeights :
            LET n == Count(doc.fonts, <<f, w>>)
            IN  /\ n <= 1
                /\ <<f, w>> \in DOMAIN options.used_font => n = 0
                /\ ( /\ TextCallsOk(<<f, w>>) # {}
                     /\ <<f, w>> \notin DOMAIN options.used_font ) => n = 1

----------------------------------------------------------------------------
(* Transforms *)

\* the local transforms of the groups above the node at the path, root first
RECURSIVE GroupTransforms(_, _)
GroupTransforms(shape, path) ==
    IF path = <<>> THEN <<>>
    ELSE IF shape.kind = "Group"
           THEN <<shape.local_transform>>
                \o GroupTransforms(shape.shapes[Head(path)], Tail(path))
           ELSE GroupTransforms(shape.shape, Tail(path))

\* m1 * m2 * ... of a sequence of transforms, from start
RECURSIVE Product(_, _)
Product(start, ms) ==
    IF ms = <<>> THEN start ELSE Product(Mul(start, Head(ms)), Tail(ms))

\* the sequence with its first two members exchanged
SwapFirstTwo(ms) == <<ms[2], ms[1]>> \o SubSeq(ms, 3, Len(ms))

\* C9: transform composition order. The geometry of every drawn shape is
\* resolved with parent * A * B * ... * T: the entry point's parent
\* transform outermost, then the ancestors' local transforms from the root
\* down, then the shape's own; a Curve's keypoints are its local keypoints
\* mapped through exactly that product; and where the two outermost
\* ancestors do not commute, the product with them exchanged is a different
\* transform.
C9_CompositionOrder ==
    Walking =>
        \A i \in DrawCalls :
            LET p == calls[i].path
                node == NodeAt(tree, p)
                ancestors == GroupTransforms(tree, p)
                abs == Product(RootParent,
                               Append(ancestors, node.local_transform))
            IN  /\ calls[i].tf = Some(abs)
                /\ node.kind = "Curve" =>
                      calls[i].arg[1].keypoints =
                         [k \in Indices(node.keypoints) |->
                             keypoint_position(node.keypoints[k], abs)]
                /\ ( /\ Len(ancestors) >= 2
                     /\ Mul(ancestors[1], ancestors[2])
                          # Mul(ancestors[2], ancestors[1]) )
                   => abs # Product(RootParent,
                                    Append(SwapFirstTwo(ancestors),
                                           node.local_transform))

\* the Circle under translate(2, 1) then a quarter turn was drawn through
\* to_pdf_with_options with the page size taken from the bounding box
C9_Witness ==
    /\ Walking /\ backend = "pdf" /\ source = SrcNested
    /\ entry.name = "to_pdf_with_options" /\ options.size = None
    /\ RootParent # Identity
    /\ \E i \in DrawCalls :
          /\ calls[i].path = <<1, 1>>
          /\ GroupTransforms(tree, <<1, 1>>)
                = <<Translation2(2, 1), Rotation2Quarter>>
          /\ calls[i].tf = Some(Mul(RootParent,
                                    Mul(Translation2(2, 1),
                                        Mul(Rotation2Quarter,
                                            Translation2(1, 0)))))
          /\ calls[i].tf # Some(Mul(RootParent,
                                    Mul(Rotation2Quarter,
                                        Mul(Translation2(2, 1),
                                            Translation2(1, 0)))))

\* C10: Circle::transform, and translate, rotate, scale and radius built on
\* it, right-multiply: after applying M1, M2, ... to a Circle whose local
\* transform was L0, the local transform is L0 * M1 * M2 * ...
C10_RightMultiply ==
    pc = "shape" =>
        Unwrap(circle).local_transform
            = Product(Unwrap(source).local_transform, applied)

\* two transforms were applied where multiplying on the left would differ
C10_Witness ==
    /\ pc = "shape" /\ Len(applied) = 2
    /\ LET l0 == Unwrap(source).local_transform
       IN  /\ Mul(applied[1], l0) # Mul(l0, applied[1])
           /\ Mul(applied[2], Mul(l0, applied[1]))
                # Mul(Mul(l0, applied[1]), applied[2])
           /\ Unwrap(circle).local_transform
                = Mul(Mul(l0, applied[1]), applied[2])

----------------------------------------------------------------------------
\* C11: no shape operation fails and each changes only the transform:
\* Circle::transform, Circle::radius, Circle::with_radius (and the
\* operations built on transform) always return the Circle, with nothing but
\* local_transform modified and nothing outside the Circle touched;
\* local_transform() returns the current transform and changes nothing.
C11_ShapeOpFrame ==
    [][pc = "shape" =>
        /\ IsSome(circle')
        /\ DOMAIN Unwrap(circle') = DOMAIN Unwrap(circle)
        /\ \A f \in DOMAIN Unwrap(circle) \ {"local_transform"} :
              Unwrap(circle')[f] = Unwrap(circle)[f]
        /\ UNCHANGED <<layer, doc, used_font, calls, source, tree, options,
                       backend, entry, stack, pc, previous, other,
                       drawing, added, scope>>
        /\ applied' = applied =>
              /\ circle' = circle
              /\ result' = Some(Unwrap(circle).local_transform)
        /\ applied' # applied => result' = result]_vars

\* operations moved the transform, and the transform read after them is the
\* moved one
C11_Witness ==
    /\ pc = "shape" /\ Len(applied) = 2
    /\ Unwrap(circle).kind = "Circle"
    /\ Unwrap(circle).local_transform # Unwrap(source).local_transform
    /\ Unwrap(circle).local_transform # Identity
    /\ result = Some(Unwrap(circle).local_transform)

----------------------------------------------------------------------------
(* Export leaves the shape tree alone *)

\* what a callback was called with: the callback, the node, the transform
\* and the resolved argument
Issued(c) == [op |-> c.op, path |-> c.path, tf |-> c.tf, arg |-> c.arg]

\* C12: export never mutates the shape tree: while an entry point runs and
\* after it returned, with success or with an error, the tree is the tree
\* that was built (every shape, transform, child order and style), so a
\* second export of it issues the same callbacks in the same order: callback
\* for callback as far as both exports got, and through the PDF exporter
\* the whole sequence with the same results.
C12_ExportKeepsTree ==
    /\ pc \in {"start", "walking", "done", "failed"} =>
          tree = Shape_from(eval(source))
    /\ IsSome(previous) =>
          LET first == Unwrap(previous)
          IN  /\ \A i \in Indices(calls) \cap Indices(first) :
                    Issued(calls[i]) = Issued(first[i])
              /\ (backend = "pdf" /\ pc \in {"done", "failed"}) =>
                    /\ Len(calls) = Len(first)
                    /\ \A i \in Indices(calls) :
                          calls[i].res = first[i].res
              /\ (pc = "done" /\ \A i \in Indices(first) : first[i].res.ok)
                    => Len(calls) = Len(first)

\* a tree with styles, groups and transforms was exported twice to the end
C12_Witness ==
    /\ IsSome(previous) /\ pc = "done"
    /\ entry.name = "write_to_pdf_with_options"
    /\ Len(calls) >= 4
    /\ \E p \in Paths(tree) : NodeAt(tree, p).kind = "Style"
    /\ \E p \in Paths(tree) : /\ NodeAt(tree, p).kind # "Style"
                               /\ NodeAt(tree, p).local_transform # Identity
    /\ [i \in Indices(calls) |-> Issued(calls[i])]
         = [i \in Indices(Unwrap(previous)) |-> Issued(Unwrap(previous)[i])]

\* an export that failed part-way left the tree as it was
C12_WitnessError ==
    /\ pc = "failed" /\ backend = "pdf" /\ Len(calls) >= 2
    /\ tree = Shape_from(eval(source))

----------------------------------------------------------------------------
(* Standalone export *)

\* C13: standalone export sizing. to_pdf_with_options creates a fresh
\* document whose page size is exactly options.size when a size is supplied
\* and otherwise the width and height of the shape's local bounding box; it
\* then runs the export on that document and returns the document only if
\* the export succeeded, and the export's error otherwise.
C13_StandaloneSizing ==
    (entry.name = "to_pdf_with_options" /\ Walking) =>
        /\ doc.size = IF IsSome(options.size) THEN options.size
                      ELSE Some(local_bounding_box(tree))
        /\ calls = <<>> => (doc.fonts = <<>> /\ layer.ops = <<>>)
        /\ pc = "walking" => result = None
        /\ pc = "done" =>
              /\ AllOk
              /\ Unwrap(result).ok
              /\ Unwrap(result).doc = Some(doc)
        /\ pc = "failed" =>
              /\ ~calls[Len(calls)].res.ok
              /\ ~Unwrap(result).ok
              /\ Unwrap(result).err = calls[Len(calls)].res.err
              /\ Unwrap(result).doc = None

\* a size was supplied that is not the bounding box, the export succeeded
\* and the document of that size was returned
C13_Witness ==
    /\ entry.name = "to_pdf_with_options" /\ pc = "done"
    /\ IsSome(options.size)
    /\ Unwrap(options.size) # local_bounding_box(tree)
    /\ Len(calls) >= 2
    /\ Unwrap(result).doc = Some(doc)
    /\ doc.size = options.size

\* no size was supplied: the page is the bounding box of the tree
C13_WitnessBox ==
    /\ entry.name = "to_pdf_with_options" /\ pc = "done"
    /\ options.size = None
    /\ local_bounding_box(tree)[1] > 0 /\ local_bounding_box(tree)[2] > 0
    /\ Unwrap(result).doc = Some(doc)
    /\ doc.size = Some(local_bounding_box(tree))

\* the export failed and no document was returned
C13_WitnessError ==
    /\ entry.name = "to_pdf_with_options" /\ pc = "failed"
    /\ Unwrap(result).doc = None

----------------------------------------------------------------------------
(* Degenerate closed curve *)

\* a closed curve that resolves to fewer than 2 points
Degenerate(cp) == cp.closed /\ Len(flat_map_points(cp, 1)) < 2

\* the export_curve callbacks of the log whose curve is not degenerate
ProperCurveCalls ==
    { i \in Indices(calls) :
        calls[i].op = "export_curve" /\ ~Degenerate(calls[i].arg[1]) }

LinesOf(l) == { j \in Indices(l.ops) : l.ops[j].op = "add_line" }

\* C14: degenerate closed curve. export_curve of a curve with closed = true
\* and fewer than 2 resolved points returns success and adds no line to the
\* layer: the lines of the layer are those of the other export_curve calls.
C14_DegenerateDrawsNothing ==
    pc = "calls" =>
        /\ \A i \in Indices(calls) :
              (calls[i].op = "export_curve" /\ Degenerate(calls[i].arg[1]))
                 => calls[i].res.ok
        /\ Cardinality(LinesOf(layer)) = Cardinality(ProperCurveCalls)

----------------------------------------------------------------------------
(* Style composition *)

\* the fill and stroke composed from the Style wrappers around the node at
\* the path, from the root inwards: a wrapper's value when it sets one,
\* the enclosing value when it leaves it absent
RECURSIVE ComposedStyle(_, _, _)
ComposedStyle(shape, path, outer) ==
    LET here == IF shape.kind = "Style"
                  THEN StylePosition(
                         IF IsSome(shape.fill) THEN shape.fill ELSE outer.fill,
                         IF IsSome(shape.stroke) THEN shape.stroke
                         ELSE outer.stroke)
                  ELSE outer
    IN  IF path = <<>> THEN here
        ELSE IF shape.kind = "Group"
          THEN ComposedStyle(shape.shapes[Head(path)], Tail(path), here)
          ELSE ComposedStyle(shape.shape, Tail(path), here)

\* C15: style composition. Through the PDF exporter every shape under
\* nested Style wrappers is drawn with the composed fill and stroke (inner
\* value when set, outer value otherwise): the fill colour, outline colour
\* and outline thickness of the layer at its draw call are those of the
\* composed style; so also for a shape of an outer-styled group that
\* follows a separately styled sibling.
C15_StyleComposition ==
    (backend = "pdf" /\ Walking) =>
        \A i \in DrawCalls :
            LET sp == ComposedStyle(tree, calls[i].path,
                                    StylePosition(None, None))
                gs == calls[i].gs
            IN  /\ IsSome(sp.fill) =>
                      gs.fill_color = PdfRgb(as_rgb_f32(Unwrap(sp.fill)))
                /\ IsSome(sp.stroke) =>
                      /\ gs.outline_color
                            = PdfRgb(as_rgb_f32(Unwrap(sp.stroke).color))
                      /\ gs.outline_thickness
                            = Mm_into_pt(Unwrap(sp.stroke).width)

----------------------------------------------------------------------------
(* Bounding box of a group *)

\* the smallest box that contains both boxes
BoxUnion(a, b) ==
    [x0 |-> IF a.x0 <= b.x0 THEN a.x0 ELSE b.x0,
     y0 |-> IF a.y0 <= b.y0 THEN a.y0 ELSE b.y0,
     x1 |-> IF a.x1 >= b.x1 THEN a.x1 ELSE b.x1,
     y1 |-> IF a.y1 >= b.y1 THEN a.y1 ELSE b.y1]

\* the boxes share no point
Apart(a, b) == a.x1 < b.x0 \/ b.x1 < a.x0 \/ a.y1 < b.y0 \/ b.y1 < a.y0

\* the exported tree is Group[s1, s2] with the identity transform and
\* s1, s2 do not overlap
TwoApart ==
    /\ tree.kind = "Group" /\ tree.local_transform = Identity
    /\ Len(tree.shapes) = 2
    /\ Apart(local_bounding_rect(tree.shapes[1]),
             local_bounding_rect(tree.shapes[2]))

\* C16: bounding-box union law. For non-overlapping s1, s2 the local
\* bounding box of Group[s1, s2] (identity group transform) is the smallest
\* box containing the boxes of s1 and s2, and it is the box whose width and
\* height the PDF export uses when no size is supplied: the page of
\* to_pdf_with_options has that size and the walk starts translated by
\* half of it.
C16_BoxUnion ==
    (Walking /\ TwoApart) =>
        LET u == BoxUnion(local_bounding_rect(tree.shapes[1]),
                          local_bounding_rect(tree.shapes[2]))
            w == u.x1 - u.x0
            h == u.y1 - u.y0
        IN  /\ local_bounding_rect(tree) = u
            /\ local_bounding_box(tree) = <<w, h>>
            /\ (backend = "pdf" /\ options.size = None) =>
                  /\ entry.name = "to_pdf_with_options" =>
                        doc.size = Some(<<w, h>>)
                  /\ (pc = "walking" /\ calls = <<>> /\ stack # <<>>
                        /\ Top.path = <<>>) =>
                        Top.parent_transform
                            = <<1, 0, 0, 1, w \div 2, h \div 2>>
                  /\ \A i \in DrawCalls :
                        calls[i].tf
                          = Some(AbsAt(tree, calls[i].path,
                                       <<1, 0, 0, 1, w \div 2, h \div 2>>))

\* two shapes lying apart were exported without a size: the page is the
\* union of their boxes, which is larger than either
C16_Witness ==
    /\ TwoApart /\ pc = "done" /\ options.size = None
    /\ entry.name = "to_pdf_with_options"
    /\ Cardinality(DrawCalls) = 2
    /\ LET b1 == local_bounding_rect(tree.shapes[1])
           b2 == local_bounding_rect(tree.shapes[2])
           u == BoxUnion(b1, b2)
       IN  /\ u # b1 /\ u # b2
           /\ doc.size = Some(<<u.x1 - u.x0, u.y1 - u.y0>>)
           /\ u.x1 - u.x0 > 0 /\ u.y1 - u.y0 > 0

----------------------------------------------------------------------------
(* Concurrent exports *)

IssuedCall(op, path, tf, arg) == [op |-> op, path |-> path, tf |-> tf,
                                  arg |-> arg]

\* the callbacks one export of the shape issues when nothing fails, in
\* order, computed in one piece
RECURSIVE AloneCalls(_, _, _)
RECURSIVE AloneChildren(_, _, _, _)
AloneCalls(shape, parent_transform, path) ==
    LET abs == IF shape.kind = "Style" THEN parent_transform
               ELSE Mul(parent_transform, shape.local_transform)
    IN  CASE shape.kind = "Group" -> AloneChildren(shape.shapes, abs, path, 1)
          [] shape.kind = "Style" ->
                << IssuedCall("start_style", path, None,
                              <<StylePosition(shape.fill, shape.stroke)>>) >>
                \o AloneCalls(shape.shape, parent_transform, Append(path, 1))
                \o << IssuedCall("end_style", path, None, <<>>) >>
          [] shape.kind = "Ellipse" ->
                IF CanExportEllipse
                  THEN << IssuedCall("export_ellipse", path, Some(abs),
                            <<ellipse_position(shape, parent_transform)>>) >>
                  ELSE << IssuedCall("export_curve", path, Some(abs),
                            <<curve_position(as_curve(shape),
                                             parent_transform)>>) >>
          [] shape.kind = "Curve" ->
                << IssuedCall("export_curve", path, Some(abs),
                              <<curve_position(shape, parent_transform)>>) >>
          [] shape.kind = "Text" ->
                << IssuedCall("export_text", path, Some(abs),
                              <<text_position(shape, parent_transform)>>) >>
          [] shape.kind = "Image" ->
                << IssuedCall("export_image", path, Some(abs),
                              <<image_position(shape, parent_transform)>>) >>
AloneChildren(shapes, parent_transform, path, i) ==
    IF i > Len(shapes) THEN <<>>
    ELSE AloneCalls(shapes[i], parent_transform, Append(path, i))
         \o AloneChildren(shapes, parent_transform, path, i + 1)

\* one callback on a PDF exporter
AloneStep(self, c) ==
    CASE c.op = "start_style" -> start_style(self, c.arg[1])
      [] c.op = "end_style" -> end_style(self)
      [] c.op = "export_curve" -> export_curve(self, c.arg[1])
      [] c.op = "export_text" -> export_text(self, c.arg[1])
      [] c.op = "export_image" -> export_image(self, c.arg[1])
      [] OTHER -> Ret(self, Ok)

\* the callbacks run one after the other on an exporter nobody else
\* touches, up to the first error: the results and the exporter left
RECURSIVE AloneRun(_, _)
AloneRun(self, seq) ==
    IF seq = <<>> THEN [self |-> self, res |-> <<>>]
    ELSE LET r == AloneStep(self, Head(seq))
         IN  IF r.res.ok
               THEN LET rest == AloneRun(r.self, Tail(seq))
                    IN  [self |-> rest.self, res |-> <<r.res>> \o rest.res]
               ELSE [self |-> r.self, res |-> <<r.res>>]

\* what the entry point of the running export sets up
AloneStart ==
    IF entry.name = "to_pdf_with_options"
      THEN to_pdf_with_options(tree, options)
      ELSE write_to_pdf_with_options(tree, NewLayer, options, CallerDoc)

\* C17: concurrent exports of the same unmodified tree share no mutable
\* traversal state. In any interleaving of two exports through the PDF
\* exporter, each export issues the callbacks it issues when it runs alone,
\* with the same results, and when it has returned its font table, layer
\* and document are those of the run alone.
C17_ConcurrentExports ==
    (IsSome(other) /\ Walking) =>
        LET w == AloneStart
            alone == AloneCalls(tree, w.parent_transform, <<>>)
            run == AloneRun(w.exporter, alone)
        IN  /\ Len(calls) <= Len(run.res)
            /\ \A i \in Indices(calls) :
                  /\ Issued(calls[i]) = alone[i]
                  /\ calls[i].res = run.res[i]
            /\ pc \in {"done", "failed"} =>
                  /\ Len(calls) = Len(run.res)
                  /\ used_font = run.self.used_font
                  /\ layer = run.self.layer
                  /\ doc = run.self.doc
            /\ pc = "done" => Len(calls) = Len(alone)

\* an export with a text returned while the other export, which has a
\* different font table, was suspended in the middle of its walk
C17_Witness ==
    /\ IsSome(other) /\ pc = "done"
    /\ \E i \in Indices(calls) : calls[i].op = "export_text"
    /\ used_font # EmptyMap
    /\ LET o == Unwrap(other)
       IN  /\ o.pc = "walking" /\ o.stack # <<>>
           /\ \E i \in Indices(o.calls) : o.calls[i].op = "export_text"
           /\ o.used_font # used_font

----------------------------------------------------------------------------
(* next_control hinting *)

\* the number of points a keypoint emits
EmittedBy(k) == IF k.kp = "Point" THEN 1
                ELSE IF IsSome(k.start) THEN 4 ELSE 3

\* the number of points emitted by the keypoints before keypoint i
RECURSIVE EmittedBefore(_, _)
EmittedBefore(keypoints, i) ==
    IF i <= 1 THEN 0
    ELSE EmittedBefore(keypoints, i - 1) + EmittedBy(keypoints[i - 1])

\* keypoint i + 1 exists and is a Bezier with its start omitted
NextIsStartlessBezier(keypoints, i) ==
    /\ i < Len(keypoints)
    /\ keypoints[i + 1].kp = "Bezier"
    /\ keypoints[i + 1].start = None

\* C18: next_control hinting in export_curve. In the line export_curve
\* adds, the flag on the last point emitted for keypoint i is true exactly
\* when keypoint i + 1 exists and is a Bezier with start omitted; a Bezier's
\* own points are flagged start = true (when present), start_control = true
\* and end_control = false; no other point is emitted.
C18_NextControl ==
    (pc = "calls" /\ calls # <<>> /\ calls[Len(calls)].op = "export_curve") =>
        LET curve == calls[Len(calls)].arg[1]
            kps == curve.keypoints
            last_op == layer.ops[Len(layer.ops)]
            points == last_op.data[1].points
        IN  /\ last_op.op = "add_line"
            /\ Len(points) = EmittedBefore(kps, Len(kps) + 1)
            /\ \A i \in Indices(kps) :
                  LET at == EmittedBefore(kps, i)
                      n == EmittedBy(kps[i])
                      k == kps[i]
                  IN  /\ points[at + n][2] = NextIsStartlessBezier(kps, i)
                      /\ k.kp = "Point" => points[at + 1][1] = k.p
                      /\ k.kp = "Bezier" =>
                            /\ IsSome(k.start) =>
                                  points[at + 1] = <<Unwrap(k.start), TRUE>>
                            /\ points[at + n - 2] = <<k.start_control, TRUE>>
                            /\ points[at + n - 1] = <<k.end_control, FALSE>>
                            /\ points[at + n][1] = k.end

\* a curve Point, Bezier without start, Point was exported: the first point
\* is flagged, the end of the Bezier and the last point are not
C18_Witness ==
    /\ pc = "calls" /\ calls # <<>>
    /\ calls[Len(calls)].op = "export_curve"
    /\ LET kps == calls[Len(calls)].arg[1].keypoints
           points == layer.ops[Len(layer.ops)].data[1].points
       IN  /\ Len(kps) = 3 /\ kps[1].kp = "Point" /\ kps[2].kp = "Bezier"
           /\ kps[2].start = None /\ kps[3].kp = "Point"
           /\ Len(points) = 5
           /\ points[1][2] = TRUE
           /\ points[2][2] = TRUE /\ points[3][2] = FALSE
           /\ points[4][2] = FALSE /\ points[5][2] = FALSE

\* a Bezier with its start followed by a Bezier without: the end of the
\* first is flagged
C18_WitnessBezier ==
    /\ pc = "calls" /\ calls # <<>>
    /\ calls[Len(calls)].op = "export_curve"
    /\ LET kps == calls[Len(calls)].arg[1].keypoints
           points == layer.ops[Len(layer.ops)].data[1].points
       IN  /\ Len(kps) = 2 /\ kps[1].kp = "Bezier" /\ IsSome(kps[1].start)
           /\ Len(points) = 7
           /\ points[1][2] = TRUE /\ points[4][2] = TRUE
           /\ points[7][2] = FALSE

----------------------------------------------------------------------------
(* Drawing is an ordered collection *)

\* C19: Drawing is an ordered collection. Drawing::empty() has no shapes and
\* canvas size (0, 0); after any sequence of add calls (Text, Line, Arc,
\* Image) shapes() returns one entry per add, in call order, each of the
\* variant that was added and carrying its data; an add appends one entry
\* and never removes, replaces or reorders the entries already there, nor
\* touches the canvas size.
C19_DrawingOrdered ==
    /\ (pc = "drawing" =>
          /\ Drawing_shapes(Unwrap(drawing)) = <<>>
          /\ Unwrap(drawing).canvas_size = <<0, 0>>)
    /\ [](pc = "drawing" =>
            LET entries == Drawing_shapes(Unwrap(drawing))
            IN  /\ Len(entries) = Len(added)
                /\ \A i \in Indices(added) :
                      /\ entries[i].shape_type.type = added[i].variant
                      /\ entries[i].style = added[i].style
                      /\ added[i].variant = "Line" =>
                            /\ entries[i].shape_type.from = added[i].from
                            /\ entries[i].shape_type.to = added[i].to
                      /\ added[i].variant # "Line" =>
                            entries[i].pos = added[i].pos
                      /\ added[i].variant = "Text" =>
                            entries[i].shape_type.text = added[i].text
                      /\ added[i].variant = "Image" =>
                            entries[i].shape_type.data = added[i].data)
    /\ [][(pc = "drawing" /\ added' # added) =>
            LET before == Drawing_shapes(Unwrap(drawing))
                after == Drawing_shapes(Unwrap(drawing'))
            IN  /\ Len(after) = Len(before) + 1
                /\ SubSeq(after, 1, Len(before)) = before
                /\ Unwrap(drawing').canvas_size
                     = Unwrap(drawing).canvas_size]_vars

\* a Text, a Line and an Image were added in that order to a drawing with a
\* canvas size, and shapes() lists them in that order
C19_Witness ==
    /\ pc = "drawing" /\ Len(added) = 3
    /\ added[1].variant = "Text" /\ added[2].variant = "Line"
    /\ added[3].variant = "Image"
    /\ Unwrap(drawing).canvas_size = <<100, 100>>
    /\ LET entries == Drawing_shapes(Unwrap(drawing))
       IN  /\ Len(entries) = 3
           /\ entries[1].shape_type.type = "Text"
           /\ entries[2].shape_type.type = "Line"
           /\ entries[3].shape_type.type = "Image"

----------------------------------------------------------------------------
(* Conditional child *)

\* the children of the group literal the exported drawing was written as
GroupChildren == source.dessin_type.children

\* C20: conditional child in dessin!. A group entry `if cond { body }`
\* expands to the body's shape when cond is true and to Shape::default()
\* when it is false and there is no else, and to the else body's shape when
\* there is one: a group has exactly one child per entry, and every entry,
\* conditional or not, is at the position it was written at.
C20_ConditionalChild ==
    (pc \in {"start", "walking", "done", "failed"}
       /\ source.dessin_type.ty = "Group"
       /\ source.erased_type_shape_actions = None) =>
        /\ tree.kind = "Group"
        /\ Len(tree.shapes) = Len(GroupChildren)
        /\ \A i \in Indices(GroupChildren) :
              LET c == GroupChildren[i].dessin_type
              IN  IF c.ty = "IfElse"
                    THEN tree.shapes[i] =
                           IF c.condition THEN Shape_from(eval(c.if_body))
                           ELSE IF IsSome(c.else_body)
                             THEN Shape_from(eval(Unwrap(c.else_body)))
                             ELSE Shape_default
                    ELSE tree.shapes[i] = Shape_from(eval(GroupChildren[i]))

\* a false condition without else left the empty group in its place, a
\* false one with else the else shape, a true one the body, and the
\* entries after them are where they were written
C20_Witness ==
    /\ pc = "done" /\ source = SrcBranches
    /\ Len(tree.shapes) = 6
    /\ tree.shapes[1] = Shape_default
    /\ tree.shapes[2].kind = "Curve"
    /\ tree.shapes[3].kind = "Image"
    /\ tree.shapes[4].kind = "Ellipse" /\ tree.shapes[5].kind = "Ellipse"
    /\ tree.shapes[6].kind = "Curve"
    /\ \E i \in DrawCalls : calls[i].path = <<3>>

----------------------------------------------------------------------------
(* Reuse is by copy *)

\* the instances that are children of a group, group after group
Owned(s) == s.groups[1] \o s.groups[2]

\* the child positions of the groups, and the shape held at one
ChildPlaces(s) ==
    UNION { { <<g, i>> : i \in 1..Len(s.groups[g]) } : g \in {1, 2} }
ShapeAtPlace(s, p) == s.heap[s.groups[p[1]][p[2]]]

\* the child positions whose shape differs between s and t
ChangedPlaces(s, t) ==
    { p \in ChildPlaces(s) : ShapeAtPlace(t, p) # ShapeAtPlace(s, p) }

\* C21: reuse is by copy only. cloned(v): (actions) applies the actions to
\* a clone of v: v is unchanged afterwards and stays usable; var(v):
\* (actions) applies them to v itself, which is moved into the result. After
\* any sequence of group constructions no shape instance is a child of two
\* groups (or twice of one), none is still owned by v, and changing the
\* transform of one child changes no other child and not v.
C21_ReuseByCopy ==
    /\ [](pc = "reuse" =>
            LET s == Unwrap(scope)
            IN  /\ \A i \in Indices(Owned(s)) : \A j \in Indices(Owned(s)) :
                      i # j => Owned(s)[i] # Owned(s)[j]
                /\ IsSome(s.v) =>
                      \A i \in Indices(Owned(s)) : Owned(s)[i] # Unwrap(s.v))
    /\ [][(pc = "reuse" /\ scope' # scope) =>
            LET s == Unwrap(scope)
                t == Unwrap(scope')
            IN  /\ t.last.op = "cloned" =>
                      /\ t.v = s.v
                      /\ t.heap[Unwrap(t.v)] = s.heap[Unwrap(s.v)]
                /\ t.last.op = "var" =>
                      /\ t.v = None
                      /\ t.last.id = Unwrap(s.v)
                /\ t.last.op \in {"cloned", "var"} =>
                      /\ \E a \in ReuseActions :
                            t.heap[t.last.id]
                              = Shape_from(with_actions(s.heap[Unwrap(s.v)], a))
                      /\ t.groups[t.last.g]
                           = Append(s.groups[t.last.g], t.last.id)
                      /\ t.groups[3 - t.last.g] = s.groups[3 - t.last.g]
                      /\ ChangedPlaces(s, t) = {}
                /\ t.last.op = "transform" =>
                      /\ Cardinality(ChangedPlaces(s, t)) <= 1
                      /\ t.groups = s.groups
                      /\ t.v = s.v
                      /\ IsSome(s.v) =>
                            t.heap[Unwrap(t.v)] = s.heap[Unwrap(s.v)]]_vars

\* a group was built from cloned(v) and var(v), as in the Squares example,
\* and one of the two children was transformed afterwards: v is moved, the
\* children are two instances and only one of them changed
C21_Witness ==
    /\ pc = "reuse"
    /\ LET s == Unwrap(scope)
       IN  /\ s.v = None
           /\ Len(s.groups[1]) = 2 /\ s.groups[2] = <<>>
           /\ s.groups[1][1] # s.groups[1][2]
           /\ s.groups[1][2] = 1
           /\ s.last.op = "transform" /\ s.last.id = s.groups[1][1]
           /\ s.heap[s.groups[1][1]].local_transform
                # s.heap[s.groups[1][2]].local_transform

----------------------------------------------------------------------------
(* Font table update *)

\* the (font, weight) pair a TextPosition selects
FontKey(tp) == << IF IsSome(tp.font) THEN Unwrap(tp.font)
                  ELSE FontRef_default,
                  tp.font_weight >>

\* C22: font table update in export_text. After a successful export_text
\* the (font, weight) pair of the text is a key of used_font: inserted by
\* the call when it was not yet a key; and a call for a pair that already
\* is a key leaves used_font unchanged.
C22_FontTableUpdate ==
    (pc = "calls" /\ calls # <<>>
       /\ calls[Len(calls)].op = "export_text"
       /\ calls[Len(calls)].res.ok) =>
        LET last == calls[Len(calls)]
            key == FontKey(last.arg[1])
        IN  /\ contains_key(used_font, key)
            /\ contains_key(last.used_font, key) =>
                  used_font = last.used_font

----------------------------------------------------------------------------
(* export_curve keeps the shape data *)

\* the coordinates a keypoint holds, in the order start, start_control,
\* end_control, end
CoordinatesOf(k) ==
    IF k.kp = "Point" THEN <<k.p>>
    ELSE IF IsSome(k.start)
      THEN <<Unwrap(k.start), k.start_control, k.end_control, k.end>>
      ELSE <<k.start_control, k.end_control, k.end>>

RECURSIVE CoordinatesFrom(_, _)
CoordinatesFrom(keypoints, i) ==
    IF i > Len(keypoints) THEN <<>>
    ELSE CoordinatesOf(keypoints[i]) \o CoordinatesFrom(keypoints, i + 1)

\* C23: export_curve keeps the curve's shape data. The line it adds has
\* is_closed equal to the curve's closed flag and its points are the
\* keypoints' coordinates in keypoint order, none dropped, added or
\* reordered: one per Point, four per Bezier with a start (start,
\* start_control, end_control, end), three per Bezier without.
C23_CurveDataKept ==
    (pc = "calls" /\ calls # <<>> /\ calls[Len(calls)].op = "export_curve") =>
        LET curve == calls[Len(calls)].arg[1]
            last_op == layer.ops[Len(layer.ops)]
            line == last_op.data[1]
        IN  /\ calls[Len(calls)].res.ok
            /\ last_op.op = "add_line"
            /\ line.is_closed = curve.closed
            /\ [i \in Indices(line.points) |-> line.points[i][1]]
                 = CoordinatesFrom(curve.keypoints, 1)

\* a closed curve of a Bezier with its start and one without was exported:
\* seven points, closed
C23_Witness ==
    /\ pc = "calls" /\ calls # <<>>
    /\ calls[Len(calls)].op = "export_curve"
    /\ LET curve == calls[Len(calls)].arg[1]
           line == layer.ops[Len(layer.ops)].data[1]
       IN  /\ curve.closed /\ line.is_closed
           /\ Len(curve.keypoints) = 2
           /\ IsSome(curve.keypoints[1].start)
           /\ curve.keypoints[2].start = None
           /\ Len(line.points) = 7
           /\ line.points[1][1] = Unwrap(curve.keypoints[1].start)
           /\ line.points[7][1] = curve.keypoints[2].end

----------------------------------------------------------------------------
(* start_style touches only what the style sets *)

StartStyleCalls == { i \in Indices(calls) : calls[i].op = "start_style" }

\* C24: start_style touches only what the style sets. Every call returns
\* success; with fill absent the fill colour of the layer is unchanged, with
\* stroke absent the outline colour, the outline thickness and the dash
\* pattern are unchanged, and with both absent the whole draw state is.
C24_StartStyleFrame ==
    pc = "calls" =>
        \A i \in StartStyleCalls :
            LET sp == calls[i].arg[1]
                before == calls[i].gs
                after == GsAfter(i)
            IN  /\ calls[i].res.ok
                /\ sp.fill = None => after.fill_color = before.fill_color
                /\ sp.stroke = None =>
                      /\ after.outline_color = before.outline_color
                      /\ after.outline_thickness = before.outline_thickness
                      /\ after.dash_pattern = before.dash_pattern
                /\ (sp.fill = None /\ sp.stroke = None) => after = before

\* on a layer with a red fill, a style with a stroke and no fill was
\* started: the fill is still red while the outline is the style's
C24_Witness ==
    /\ pc = "calls"
    /\ \E i \in StartStyleCalls :
         LET sp == calls[i].arg[1]
             before == calls[i].gs
         IN  /\ sp.fill = None /\ IsSome(sp.stroke)
             /\ before.fill_color = PdfRgb(as_rgb_f32(RED))
             /\ GsAfter(i).fill_color = before.fill_color
             /\ GsAfter(i).outline_color # before.outline_color

----------------------------------------------------------------------------
(* Stroke::Full and the dash pattern *)

\* the draw calls that directly follow a start_style with a Full stroke
FullStrokeDraws ==
    { i \in DrawCalls :
        /\ i > 1
        /\ calls[i - 1].op = "start_style"
        /\ IsSome(calls[i - 1].arg[1].stroke)
        /\ Unwrap(calls[i - 1].arg[1].stroke).kind = "Full" }

\* C25: a shape whose style has stroke Full is never drawn with a dash
\* pattern active. On a layer that had no dash pattern when the exporter
\* got it, after any sequence of start_style and end_style calls, nested
\* ones included, the dash pattern is none at the draw call that follows a
\* start_style with Stroke::Full.
C25_FullStrokeIsSolid ==
    (pc = "calls" /\ calls # <<>>
       /\ calls[1].gs.dash_pattern = LineDashPattern(None, None)) =>
        \A i \in FullStrokeDraws :
            calls[i].gs.dash_pattern = LineDashPattern(None, None)

----------------------------------------------------------------------------
(* Text sections *)

OpsNamed(ops, name) == { j \in Indices(ops) : ops[j].op = name }

TextOps == {"begin_text_section", "set_font", "set_text_rendering_mode",
            "set_text_matrix", "write_text", "end_text_section"}

\* every text operation of ops lies in a section that is begun and ended
Balanced(ops) ==
    /\ Cardinality(OpsNamed(ops, "begin_text_section"))
         = Cardinality(OpsNamed(ops, "end_text_section"))
    /\ \A b \in OpsNamed(ops, "begin_text_section") :
         \E e \in OpsNamed(ops, "end_text_section") :
            /\ b < e
            /\ \A j \in (b + 1)..(e - 1) :
                 ops[j].op \in TextOps \ {"begin_text_section",
                                           "end_text_section"}
    /\ \A j \in Indices(ops) :
         ops[j].op = "write_text" =>
            \E b \in OpsNamed(ops, "begin_text_section") :
               \E e \in OpsNamed(ops, "end_text_section") : b < j /\ j < e

\* this step is a call of export_text
ExportTextStep ==
    /\ pc = "calls" /\ pc' = "calls"
    /\ Len(calls') = Len(calls) + 1
    /\ calls'[Len(calls')].op = "export_text"

\* C26: export_text leaves no half-written text. A call that fails, the
\* font not being embedded, returns before any text section is begun and
\* writes nothing on the layer; a call that begins a text section ends it
\* before it returns; so the begin_text_section and end_text_section
\* operations are balanced after any sequence of export_text calls.
C26_NoHalfWrittenText ==
    /\ [](pc = "calls" => Balanced(layer.ops))
    /\ [][ExportTextStep =>
            LET res == calls'[Len(calls')].res
                before == Len(layer.ops)
                written == SubSeq(layer'.ops, before + 1, Len(layer'.ops))
            IN  /\ SubSeq(layer'.ops, 1, before) = layer.ops
                /\ ~res.ok => written = <<>>
                /\ res.ok =>
                      /\ written # <<>>
                      /\ written[1].op = "begin_text_section"
                      /\ written[Len(written)].op = "end_text_section"
                      /\ Cardinality(OpsNamed(written, "begin_text_section"))
                           = 1
                      /\ Cardinality(OpsNamed(written, "end_text_section"))
                           = 1]_vars

\* one export_text failed on its font and one wrote its text: the layer
\* holds exactly one text section, begun and ended
C26_Witness ==
    /\ pc = "calls"
    /\ \E i, j \in Indices(calls) :
         /\ calls[i].op = "export_text" /\ ~calls[i].res.ok
         /\ calls[j].op = "export_text" /\ calls[j].res.ok
    /\ Cardinality(OpsNamed(layer.ops, "begin_text_section")) = 1
    /\ Cardinality(OpsNamed(layer.ops, "end_text_section")) = 1
    /\ OpsNamed(layer.ops, "write_text") # {}

----------------------------------------------------------------------------
(* Circle::radius composes *)

\* centre and radius, in 1/Unit, of the circle a transform without rotation
\* or shear makes of the unit circle
CentreOf(m) == Apply(m, <<0, 0>>)
RadiusOf(m) == Apply(m, <<Unit, 0>>)[1] - Apply(m, <<0, 0>>)[1]

\* the box [(x0, y0), (x1, y1)] around the circle that the transform m
\* makes of the unit circle
BoxOf(m) == << Apply(m, <<-Unit, -Unit>>), Apply(m, <<Unit, Unit>>) >>

\* this step is circle.radius(r) or circle.with_radius(r)
RadiusStep(r) ==
    /\ pc = "shape" /\ applied' = Append(applied, Scale2(r, r))

\* C27: Circle::radius composes instead of setting. radius(r)
\* right-multiplies the uniform scale (r, r) into the local transform, so
\* radius(a) then radius(b) gives the uniform scale a * b; and on a new
\* Circle translate(t) then radius(r) gives the circle of radius r centred
\* at t, covering [t - (r, r), t + (r, r)], while radius(r) then
\* translate(t) gives another transform, centred at r * t.
C27_RadiusComposes ==
    /\ [][\A r \in Radii :
            RadiusStep(r) =>
                Unwrap(circle').local_transform
                    = Mul(Unwrap(circle).local_transform, Scale2(r, r))]_vars
    /\ [](pc = "shape" /\ Len(applied) = 2 =>
            LET l0 == Unwrap(source).local_transform
                lt == Unwrap(circle).local_transform
            IN  /\ \A a, b \in Radii :
                     applied = <<Scale2(a, a), Scale2(b, b)>> =>
                        lt = Mul(l0, Scale2(a * b, a * b))
                /\ \A t \in Offsets, r \in Radii :
                     l0 = Identity =>
                        /\ applied = <<Translation2(t[1], t[2]),
                                       Scale2(r, r)>> =>
                              /\ CentreOf(lt) = Point2(t[1], t[2])
                              /\ RadiusOf(lt) = r * Unit
                              /\ BoxOf(lt)
                                   = << Point2(t[1] - r, t[2] - r),
                                        Point2(t[1] + r, t[2] + r) >>
                        /\ applied = <<Scale2(r, r),
                                       Translation2(t[1], t[2])>> =>
                              /\ CentreOf(lt) = Point2(r * t[1], r * t[2])
                              /\ CentreOf(lt) # Point2(t[1], t[2])
                              /\ RadiusOf(lt) = r * Unit
                              /\ lt # Mul(Translation2(t[1], t[2]),
                                          Scale2(r, r)))

\* a new Circle was translated by (1, 0) and then given the radius 2: it
\* covers [(-1, -2), (3, 2)]
C27_Witness ==
    /\ pc = "shape"
    /\ Unwrap(source).local_transform = Identity
    /\ applied = <<Translation2(1, 0), Scale2(2, 2)>>
    /\ BoxOf(Unwrap(circle).local_transform)
         = << Point2(-1, -2), Point2(3, 2) >>

----------------------------------------------------------------------------
(* Page size and centring *)

\* the translation by half of the size the page of the document was made
\* with
PageCentre ==
    LET size == Unwrap(doc.size)
    IN  half_translation(size[1], size[2])

\* the walk is about to visit the root of the tree
AtRoot == /\ pc = "walking" /\ calls = <<>>
          /\ stack # <<>> /\ Top.path = <<>>

\* C28: page size and centring agree. In to_pdf_with_options the (width,
\* height) the PDF page is created with is the pair
\* write_to_pdf_with_options builds the parent transform from, the
\* translation by (width / 2, height / 2), whether the size was supplied
\* in the options or computed from the bounding box: the walk starts with
\* that translation and every shape is drawn resolved against it.
C28_PageAndCentreAgree ==
    (entry.name = "to_pdf_with_options" /\ Walking) =>
        /\ IsSome(doc.size)
        /\ AtRoot => Top.parent_transform = PageCentre
        /\ \A i \in DrawCalls :
              calls[i].tf = Some(AbsAt(tree, calls[i].path, PageCentre))

\* a size that is not the bounding box was supplied: the page has it and
\* the shapes were drawn translated by half of it
C28_Witness ==
    /\ entry.name = "to_pdf_with_options" /\ pc = "done"
    /\ IsSome(options.size)
    /\ Unwrap(options.size) # local_bounding_box(tree)
    /\ doc.size = options.size
    /\ PageCentre # Identity
    /\ DrawCalls # {}
    /\ \A i \in DrawCalls :
          calls[i].tf = Some(AbsAt(tree, calls[i].path, PageCentre))

\* no size was supplied: the page is the bounding box and the shapes were
\* drawn translated by half of the box
C28_WitnessComputed ==
    /\ entry.name = "to_pdf_with_options" /\ pc = "done"
    /\ options.size = None
    /\ doc.size = Some(local_bounding_box(tree))
    /\ PageCentre # Identity
    /\ DrawCalls # {}
    /\ \A i \in DrawCalls :
          calls[i].tf = Some(AbsAt(tree, calls[i].path, PageCentre))

====
